---- MODULE Spec2Model ----
(***************************************************************************)
(* The multi-chain RPC client of status-go (package rpc, client.go):       *)
(* routing of a call to a blocked / handler / remote / local target, the   *)
(* chain-id -> endpoint cache filled on first use, the upstream record     *)
(* swapped by UpdateUpstreamURL, and the registry of local handlers.       *)
(* Goroutines call the public operations concurrently; every access to a   *)
(* shared field of Client is one step.                                     *)
(***************************************************************************)
EXTENDS Integers, Sequences, FiniteSets, TLC

\* ------------------------------------------------------------- bounds
\* Operations started in one behaviour by concurrent goroutines.
MaxOps == 2
\* Operations started in one behaviour by a lone goroutine.
MaxSeqOps == 2

Procs == {"g1", "g2"}
ChainIDs == {0, 1}
\* The chain-id lists passed to EthClients.
IDLists == {<<>>, <<0, 1>>, <<1, 1>>}
\* The URL a goroutine passes to UpdateUpstreamURL.
UpdateURL(g) == <<"up", g>>
InitialUpstreamURL == <<"up", "g0">>
NoURL == <<>>

\* Go's nil: a nil pointer, and a nil interface value or error.
Nil == [nil |-> TRUE]
NilValue == "nil"

\* ------------------------------------------------------------- errors
ErrMethodNotFound == "ErrMethodNotFound"
ErrNetworkNotFound == "could not find network"
ErrDial == "dial upstream server"
ErrDialUpdate == "dial error"
ErrMissingLocal == "missing local JSON-RPC endpoint"
ErrHandler == "handler error"
ErrTransport == "transport error"
ErrCanceled == "context canceled"
ErrInit == "network manager init error"

ErrInvalidResultType == "invalid result type"
ErrCantAssign == "can't assign value to result"
ErrMarshal == "json: unsupported type or invalid raw message"

\* ------------------------------------------------------------- values
\* A Go value: its dynamic type and its content, a sequence of characters.
\* Type "bytes" is []byte and "raw" is json.RawMessage; a "struct" value
\* <<name, n>> has one field, tagged name, holding the integer n.
GoValue(type, v) == [type |-> type, v |-> v]

\* The nil interface value.
NilInterface == GoValue("nil", <<>>)
\* What a variable of the caller holds before anything is written to it.
Unset == GoValue("unset", <<>>)

\* What a caller passes as result: nothing, a pointer to a variable of type
\* elem, a nil pointer of that pointer type, or a value that is no pointer.
NilResult == [kind |-> "nil", elem |-> "nil"]
Pointer(elem) == [kind |-> "pointer", elem |-> elem]
NilPointer(elem) == [kind |-> "nilpointer", elem |-> elem]
NonPointer(type) == [kind |-> "value", elem |-> type]

\* The value a "value" handler returns and the value a transport decodes.
HandlerResponse == GoValue("string", <<"v">>)
TransportReply == GoValue("string", <<"r">>)

\* The result arguments of calls: a pointer to a string variable.
Results == {Pointer("string")}

\* The result arguments and the handler responses callMethod is tried with.
ElemTypes == {"int", "string", "struct", "bytes", "raw", "iface"}
ResultArgs ==
  {NilResult} \cup {Pointer(t) : t \in ElemTypes}
              \cup {NilPointer("int"), NilPointer("raw")}
              \cup {NonPointer("int"), NonPointer("struct")}
StructX1 == GoValue("struct", <<"x", "1">>)
Responses ==
  {NilInterface, GoValue("int", <<"1">>), GoValue("string", <<"a", "\"">>),
   StructX1, GoValue("bytes", <<"a", "b", "c">>),
   GoValue("raw", <<"{", "\"", "x", "\"", ":", " ", "1", "}">>),
   GoValue("raw", <<"{">>), GoValue("chan", <<>>)}

\* ------------------------------------------------------------- router
BlockedMethod == "shh_getPrivateKey"
RemoteMethod == "eth_call"
LocalMethod == "web3_clientVersion"
Methods == {BlockedMethod, RemoteMethod, LocalMethod}

\* router.routeBlocked: the method is in the fixed block list.
routeBlocked(method) == method = BlockedMethod

\* router.routeRemote: false without an upstream, else the fixed remote list.
routeRemote(enabled, method) == enabled /\ method = RemoteMethod

\* ------------------------------------------------------------ handlers
\* A Handler is caller code.  "value" returns a response, "fail" returns an
\* error, "bypass" calls CallContextIgnoringLocalHandlers and returns what
\* that call produced.
HandlerKinds == {"value", "fail", "bypass"}
NoHandler == "none"

\* ------------------------------------------------------- collaborators
\* params.Network as NetworkManager.Find returns it: chain 1 declares a
\* fallback URL, chain 0 does not.
Network(chainID) ==
  [ChainID |-> chainID, RPCURL |-> <<"rpc", chainID>>,
   FallbackURL |-> IF chainID = 1 THEN <<"fallback", chainID>> ELSE NoURL]

NetworkConfigs(chainID) == {Nil, Network(chainID)}

\* A transport handle returned by gethrpc.Dial: the n-th dial of operation op.
Handle(op, n, url) == [op |-> op, n |-> n, url |-> url]

\* The in-process node's client passed to NewClient.
LocalClient == [local |-> TRUE]

\* chain.NewClient
NewClient(main, fallback, chainID) ==
  [main |-> main, fallback |-> fallback, ChainID |-> chainID]

\* chain.NewSimpleClient
NewSimpleClient(main, chainID) == NewClient(main, Nil, chainID)

NoEntry == [absent |-> TRUE]

VARIABLES
  rpcClients,      \* c.rpcClients: chain id -> record, NoEntry when no key
  upstream,        \* c.upstream
  upstreamURL,     \* c.upstreamURL
  UpstreamChainID, \* c.UpstreamChainID
  upstreamEnabled, \* c.upstreamEnabled (and router.upstreamEnabled)
  local,           \* c.local
  handlers,        \* c.handlers: method -> handler, NoHandler when no key
  networks,        \* what NetworkManager.Find answers per chain id
  mu,              \* holder of the Client's embedded RWMutex, "free" when free
  crashed,         \* the runtime aborted the process (fatal error or panic)
  nOps,            \* operations started so far
  pc,              \* per goroutine: the step it executes next
  call,            \* per goroutine: the public operation and its arguments
  loc,             \* per goroutine: local variables of the running frames
  log,             \* per goroutine: what the running operation did so far
  ret,             \* per goroutine: what the operation returns
  procs,           \* the goroutines that call the client
  stores,          \* every record stored in rpcClients, in order (history)
  prev,            \* a lone goroutine's preceding operation (history)
  bind,            \* callMethod run by itself: its arguments and its outcome
  ctx,             \* the cancellation of a caller's context.Context
  built,           \* NewClient: its arguments, its progress and its result
  db,              \* the mailserver Database: its tables and its running operation
  reg,             \* handlersMx and the goroutines that use the handler registry
  saved,           \* the saved_addresses table and the operation running on it
  gaps,            \* the mailserver_request_gaps table and a running AddGaps
  backup           \* a run of Messenger.BackupData

vars == <<rpcClients, upstream, upstreamURL, UpstreamChainID, upstreamEnabled,
          local, handlers, networks, mu, crashed, nOps,
          pc, call, loc, log, ret, procs, stores, prev, bind, ctx, built, db,
          reg, saved, gaps, backup>>

\* The fields of Client written after construction, and the rest of the world.
shared == <<rpcClients, upstream, upstreamURL, handlers, networks, mu, crashed,
            stores>>
\* What is fixed once the client is built, and what the operations of the
\* client never write.
config == <<UpstreamChainID, upstreamEnabled, local, procs, bind, ctx, built,
           db, reg, saved, gaps, backup>>

\* An operation and its arguments; no numbers the operations of a behaviour
\* and registered is the handler its method had when a CallContext began.
NoCall == [op |-> "none", no |-> 0, result |-> NilResult, chainID |-> 0,
           chainIDs |-> <<>>, method |-> "", url |-> NoURL,
           handler |-> NoHandler, registered |-> NoHandler]

NoLoc == [depth |-> 0, inner |-> "", idx |-> 1, clients |-> <<>>,
          handler |-> NoHandler, network |-> Nil, rpcClient |-> Nil,
          rpcFallbackClient |-> Nil, client |-> Nil, response |-> NilInterface,
          herr |-> NilValue, slot |-> Unset, old |-> Nil]

NoRet == [err |-> NilValue, client |-> Nil, clients |-> <<>>]

\* changed: the chain ids whose configuration changed since that operation.
NoPrev == [call |-> NoCall, ret |-> NoRet, log |-> <<>>, old |-> Nil,
           changed |-> {}]

\* NewClient is not running: the client is in use.  While it runs: the
\* arguments client, upstreamChainID, upstream.Enabled and networks, the
\* error of networkManager.Init and what was logged, and what is returned.
NoBuilt == [stage |-> "used", client |-> Nil, upstreamChainID |-> 0,
            enabled |-> FALSE, networks |-> <<>>, initErr |-> NilValue,
            logged |-> <<>>, dials |-> <<>>, ok |-> FALSE, err |-> NilValue]

\* No row of a table.
NoRow == [absent |-> TRUE]
\* A Database nobody uses: the table mailserver_topics is empty.
NoDB == [stage |-> "none", topics |-> <<>>, before |-> <<>>, tx |-> <<>>,
         filters |-> <<>>, idx |-> 0, deleteErr |-> NilValue,
         err |-> NilValue]

\* No context was cancelled.  Of a cancelled one: the operation it was
\* passed to, the step that operation was at and the length of its log.
LiveCtx == [done |-> FALSE, no |-> 0, at |-> "", len |-> 0]

\* ---------------------------------------------------------------- Init
\* NewClient: the state after a successful construction.
\* handlersMx free and nobody using the registry.
NoReg == [readers |-> [g \in Procs |-> 0], writer |-> "free", pending |-> {},
          stack |-> [g \in Procs |-> <<>>], n |-> 0]

\* No update of a saved address, and the saved_addresses table with no
\* operation on it.
NoUpdate == [op |-> "none", clock |-> 0, name |-> ""]
NoSaved == [stage |-> "none", row |-> NoRow, start |-> NoRow, all |-> {},
            todo |-> {}, u |-> NoUpdate, before |-> NoRow, tx |-> NoRow,
            begun |-> FALSE, newer |-> FALSE, ok |-> FALSE, err |-> NilValue,
            commits |-> 0, rollbacks |-> 0, onNil |-> FALSE, failed |-> FALSE]
\* The mailserver_request_gaps table with no AddGaps running.
NoGaps == [stage |-> "none", table |-> <<>>, before |-> <<>>, tx |-> <<>>,
           gaps |-> <<>>, idx |-> 0, err |-> NilValue, ret |-> NilValue,
           commits |-> 0, rollbacks |-> 0]
\* No run of BackupData.
NoBackup == [stage |-> "none", contacts |-> 0, communities |-> 0,
             settings |-> 0, handler |-> FALSE, idx |-> 0, sent |-> <<>>,
             LastClockValue |-> 0, savedClock |-> 0, LastBackup |-> 0,
             signals |-> <<>>, value |-> 0, err |-> NilValue, failed |-> ""]

\* The machines that model other parts of the program are not running.
Unused == reg = NoReg /\ saved = NoSaved /\ gaps = NoGaps /\ backup = NoBackup

InitClient ==
  /\ \E enabled \in BOOLEAN, id \in ChainIDs :
       /\ upstreamEnabled = enabled
       /\ UpstreamChainID = IF enabled THEN id ELSE 0
       /\ upstreamURL = IF enabled THEN InitialUpstreamURL ELSE NoURL
       /\ upstream = IF enabled
                       THEN NewSimpleClient(Handle(0, 1, InitialUpstreamURL), id)
                       ELSE Nil
       /\ (~enabled => id = 0)
  /\ local \in {Nil, LocalClient}
  /\ networks \in [ChainIDs -> UNION {NetworkConfigs(c) : c \in ChainIDs}]
  /\ \A c \in ChainIDs : networks[c] \in NetworkConfigs(c)
  /\ rpcClients = [c \in ChainIDs |-> NoEntry]
  /\ handlers = [m \in Methods |-> NoHandler]
  /\ mu = "free"
  /\ crashed = FALSE
  /\ nOps = 0
  /\ pc = [g \in Procs |-> "idle"]
  /\ call = [g \in Procs |-> NoCall]
  /\ loc = [g \in Procs |-> NoLoc]
  /\ log = [g \in Procs |-> <<>>]
  /\ ret = [g \in Procs |-> NoRet]
  /\ stores = <<>>
  /\ prev = NoPrev
  /\ ctx = LiveCtx
  /\ built = NoBuilt
  /\ db = NoDB
  /\ Unused

\* callMethod with its arguments: the result passed on by CallContext, how
\* often the handler was invoked, what it returned, and what callMethod
\* returned and wrote.
NoBind == [stage |-> "none", result |-> NilResult, invoked |-> 0,
           response |-> NilInterface, herr |-> NilValue,
           out |-> [err |-> NilValue, written |-> FALSE, value |-> Unset]]

\* Goroutines g1 and g2 use the client concurrently.
Init == InitClient /\ procs = Procs /\ bind = NoBind

\* One goroutine uses the client: its operations follow one another.
InitSeq == InitClient /\ procs = {"g1"} /\ bind = NoBind

\* callMethod is entered with some result argument; no goroutine uses the
\* rest of the client.
InitBind ==
  /\ InitClient
  /\ procs = {}
  /\ \E result \in ResultArgs :
       bind = [NoBind EXCEPT !.stage = "entered", !.result = result]

\* -------------------------------------------------------------- helpers
Event(e, d, x) == [e |-> e, d |-> d, x |-> x]
Logged(g, e, x) ==
  log' = [log EXCEPT ![g] = Append(@, Event(e, loc[g].depth, x))]

\* The events e of a log, and those of them made at call depth d.
Events(lg, e) == SelectSeq(lg, LAMBDA v : v.e = e)
EventsAt(lg, e, d) == SelectSeq(lg, LAMBDA v : v.e = e /\ v.d = d)

\* The chain id the running getClientUsingCache was called with.
CurChain(g) ==
  IF call[g].op = "EthClients" THEN call[g].chainIDs[loc[g].idx]
  ELSE call[g].chainID

\* The method the running CallContextIgnoringLocalHandlers was called with.
CurMethod(g) == IF loc[g].depth = 1 THEN loc[g].inner ELSE call[g].method

\* A goroutine at "done" has just returned: what it returned is looked at
\* there, and Retire takes it back to "idle" before anything else runs.
Returning == \E g \in Procs : pc[g] = "done"

Running(g) == ~crashed /\ ~Returning /\ pc[g] # "idle"

Return(g, r) ==
  /\ pc' = [pc EXCEPT ![g] = "done"]
  /\ ret' = [ret EXCEPT ![g] = r]

\* CallContextIgnoringLocalHandlers returns err: to the handler that called
\* it (which then returns the same error to callMethod), or to the caller.
CiReturn(g, err, l) ==
  IF l.depth = 1
    THEN /\ pc' = [pc EXCEPT ![g] = "cm_result"]
         /\ loc' = [loc EXCEPT ![g] = [l EXCEPT !.depth = 0, !.herr = err]]
         /\ UNCHANGED ret
    ELSE /\ Return(g, [NoRet EXCEPT !.err = err])
         /\ loc' = [loc EXCEPT ![g] = l]

\* getClientUsingCache returns (client, err) to EthClient, to the loop of
\* EthClients or to CallContextIgnoringLocalHandlers.
\* Mutant: the newest endpoint goes to the front of the list.
Appended_InFront(clients, client) == <<client>> \o clients

\* line 144: clients = append(clients, client).
Appended(clients, client) == Append(clients, client)

GcReturn(g, client, err, l) ==
  CASE call[g].op = "EthClient" ->
         /\ Return(g, [NoRet EXCEPT !.err = err, !.client = client])
         /\ loc' = [loc EXCEPT ![g] = l]
    [] call[g].op = "EthClients" ->
         IF err # NilValue
           THEN /\ Return(g, [NoRet EXCEPT !.err = err])
                /\ loc' = [loc EXCEPT ![g] = l]
           ELSE IF l.idx = Len(call[g].chainIDs)
             THEN /\ Return(g, [NoRet EXCEPT !.clients = Appended(l.clients, client)])
                  /\ loc' = [loc EXCEPT ![g] = l]
             ELSE /\ pc' = [pc EXCEPT ![g] = "gc_read"]
                  /\ loc' = [loc EXCEPT ![g] =
                       [l EXCEPT !.idx = @ + 1, !.clients = Appended(@, client),
                                 !.network = Nil, !.rpcClient = Nil,
                                 !.rpcFallbackClient = Nil]]
                  /\ UNCHANGED ret
    [] OTHER ->
         IF err # NilValue
           THEN CiReturn(g, err, l)
           ELSE /\ pc' = [pc EXCEPT ![g] = "tr_remote"]
                /\ loc' = [loc EXCEPT ![g] = [l EXCEPT !.client = client]]
                /\ UNCHANGED ret

\* Mutant: the local client is called without the nil test.
IgnoringTarget_LocalUnchecked(method, enabled, localClient) ==
  IF routeBlocked(method) THEN "blocked"
  ELSE IF routeRemote(enabled, method) THEN "remote"
  ELSE "local"

\* Where CallContextIgnoringLocalHandlers sends a call: lines 210-226.
IgnoringTarget(method, enabled, localClient) ==
  IF routeBlocked(method) THEN "blocked"
  ELSE IF routeRemote(enabled, method) THEN "remote"
  ELSE IF localClient = Nil THEN "missing"
  ELSE "local"

\* Mutant: a registered handler of the method is run, as CallContext does.
CiEntry_RunsHandler(g, method, l) ==
  IF handlers[method] # NoHandler /\ ~routeBlocked(method)
    THEN /\ pc' = [pc EXCEPT ![g] = "cm_invoke"]
         /\ loc' = [loc EXCEPT ![g] = [l EXCEPT !.handler = handlers[method]]]
         /\ UNCHANGED ret
    ELSE LET target == IgnoringTarget(method, upstreamEnabled, local)
         IN CASE target = "blocked" -> CiReturn(g, ErrMethodNotFound, l)
              [] target = "missing" -> CiReturn(g, ErrMissingLocal, l)
              [] OTHER ->
                   /\ pc' = [pc EXCEPT ![g] =
                               IF target = "remote" THEN "gc_read" ELSE "tr_local"]
                   /\ loc' = [loc EXCEPT ![g] = l]
                   /\ UNCHANGED ret

\* CallContextIgnoringLocalHandlers up to its first access outside the
\* routing policy, with locals l: lines 210-226.
CiEntry(g, method, l) ==
  LET target == IgnoringTarget(method, upstreamEnabled, local)
  IN CASE target = "blocked" -> CiReturn(g, ErrMethodNotFound, l)
       [] target = "missing" -> CiReturn(g, ErrMissingLocal, l)
       [] OTHER ->
            /\ pc' = [pc EXCEPT ![g] =
                        IF target = "remote" THEN "gc_read" ELSE "tr_local"]
            /\ loc' = [loc EXCEPT ![g] = l]
            /\ UNCHANGED ret

\* Another goroutine is about to access the rpcClients map.
MapAccessBy(g) == pc[g] \in {"gc_read", "gc_store"}
MapWriteBy(g) == pc[g] = "gc_store"

\* --------------------------------------------- starting an operation
\* The goroutines are interchangeable: g1 is the one that starts when none
\* is in an operation.
CanStart(g) ==
  /\ ~crashed /\ ~Returning
  /\ g \in procs
  /\ pc[g] = "idle"
  /\ g = "g1" \/ pc["g1"] # "idle"
  /\ nOps < (IF procs = Procs THEN MaxOps ELSE MaxSeqOps)

Start(g, c) ==
  /\ CanStart(g)
  /\ nOps' = nOps + 1
  /\ call' = [call EXCEPT ![g] = [c EXCEPT !.no = nOps + 1]]

\* The caller has its answer; the frames of the operation are gone.
Retire(g) ==
  /\ ~crashed /\ pc[g] = "done"
  /\ pc' = [pc EXCEPT ![g] = "idle"]
  /\ call' = [call EXCEPT ![g] = NoCall]
  /\ loc' = [loc EXCEPT ![g] = NoLoc]
  /\ log' = [log EXCEPT ![g] = <<>>]
  /\ ret' = [ret EXCEPT ![g] = NoRet]
  /\ prev' = IF procs = {g}
              THEN [call |-> call[g], ret |-> ret[g], log |-> log[g],
                    old |-> loc[g].old, changed |-> {}]
              ELSE prev
  /\ UNCHANGED <<shared, config, nOps>>

\* EthClient, lines 128-135.
EthClient(g) ==
  \E chainID \in ChainIDs :
    /\ Start(g, [NoCall EXCEPT !.op = "EthClient", !.chainID = chainID])
    /\ pc' = [pc EXCEPT ![g] = "gc_read"]
    /\ UNCHANGED <<shared, config, prev, loc, log, ret>>

\* EthClients, lines 137-148: the loop calls getClientUsingCache per id.
EthClients(g) ==
  \E chainIDs \in IDLists :
    /\ Start(g, [NoCall EXCEPT !.op = "EthClients", !.chainIDs = chainIDs])
    /\ pc' = [pc EXCEPT ![g] = IF chainIDs = <<>> THEN "done" ELSE "gc_read"]
    /\ UNCHANGED <<shared, config, prev, loc, log, ret>>

\* Mutant: the registration leaves the map as it was.
StoreHandler_Dropped(hs, method, handler) == hs

\* Mutant: a name that has a handler keeps it.
StoreHandler_KeepFirst(hs, method, handler) ==
  IF hs[method] # NoHandler THEN hs ELSE [hs EXCEPT ![method] = handler]

\* line 237: c.handlers[method] = handler.
StoreHandler(hs, method, handler) == [hs EXCEPT ![method] = handler]

\* handler, lines 260-265: the handler of the name and whether there is one.
handlerFor(hs, method) ==
  [handler |-> hs[method], ok |-> hs[method] # NoHandler]

\* RegisterHandler, lines 233-238: one critical section of handlersMx.
RegisterHandler(g) ==
  \E method \in Methods, handler \in HandlerKinds :
    /\ Start(g, [NoCall EXCEPT !.op = "RegisterHandler", !.method = method,
                               !.handler = handler])
    /\ handlers' = StoreHandler(handlers, method, handler)
    /\ pc' = [pc EXCEPT ![g] = "done"]
    /\ UNCHANGED <<rpcClients, upstream, upstreamURL, networks, mu, crashed,
                   stores, config, prev, loc, log, ret>>

\* The application changes the configuration NetworkManager.Find reads.
\* With concurrent goroutines the change is one of the MaxOps operations and
\* happens at any moment; an application with a single goroutine makes one
\* change between two of its operations.
UpdateNetwork ==
  \E chainID \in ChainIDs : \E n \in NetworkConfigs(chainID) :
    /\ ~crashed /\ ~Returning
    /\ procs # {}
    /\ n # networks[chainID]
    /\ networks' = [networks EXCEPT ![chainID] = n]
    /\ IF Cardinality(procs) = 1
         THEN /\ \A g \in Procs : pc[g] = "idle"
              /\ prev.call.op # "none" /\ prev.changed = {}
              /\ nOps < MaxSeqOps
              /\ prev' = [prev EXCEPT !.changed = {chainID}]
              /\ UNCHANGED nOps
         ELSE /\ nOps < MaxOps
              /\ nOps' = nOps + 1
              /\ UNCHANGED prev
    /\ UNCHANGED <<rpcClients, upstream, upstreamURL, handlers, mu, crashed,
                   stores, config, pc, call, loc, log, ret>>

\* ------------------------------------------------- getClientUsingCache
\* Mutant: the map is not consulted.
CacheHit_Never(cache, chainID) == FALSE

\* line 97: rpcClient, ok := c.rpcClients[chainID]; ok.
CacheHit(cache, chainID) == cache[chainID] # NoEntry

\* line 97: the map lookup.  A lookup that overlaps a store of another
\* goroutine is a data race on the map: the runtime may abort the process.
GcRead(g) ==
  /\ Running(g) /\ pc[g] = "gc_read"
  /\ \/ /\ \E o \in Procs \ {g} : MapWriteBy(o)
        /\ crashed' = TRUE
        /\ UNCHANGED <<rpcClients, upstream, upstreamURL, handlers, networks, mu,
                       stores, config, nOps, prev, pc, call, loc, log, ret>>
     \/ /\ IF CacheHit(rpcClients, CurChain(g))
             THEN GcReturn(g, rpcClients[CurChain(g)], NilValue, loc[g])
             ELSE /\ pc' = [pc EXCEPT ![g] = "gc_find"]
                  /\ UNCHANGED <<loc, ret>>
        /\ UNCHANGED <<shared, config, nOps, prev, call, log>>

\* The handle the n-th dial of g's operation returns when it succeeds.
NextHandle(g, url) == Handle(call[g].no, Len(Events(log[g], "dial")) + 1, url)

\* One call of gethrpc.Dial: the URL and whether a handle came back.
Dial(url, ok) == [url |-> url, ok |-> ok]

\* Mutant: the fallback URL is never dialed.
Dialed_PrimaryOnly(g, network) ==
  LET main == NextHandle(g, network.RPCURL)
  IN {[ok |-> FALSE, main |-> Nil, fallback |-> Nil,
       dials |-> <<Dial(network.RPCURL, FALSE)>>],
      [ok |-> TRUE, main |-> main, fallback |-> Nil,
       dials |-> <<Dial(network.RPCURL, TRUE)>>]}

\* Mutant: a failed dial of the fallback URL is let through, the record is
\* built without a fallback handle.
Dialed_FallbackOptional(g, network) ==
  LET main == NextHandle(g, network.RPCURL)
      fb == [main EXCEPT !.n = @ + 1, !.url = network.FallbackURL]
  IN {[ok |-> FALSE, main |-> Nil, fallback |-> Nil,
       dials |-> <<Dial(network.RPCURL, FALSE)>>]}
     \cup
     (IF Len(network.FallbackURL) > 0
        THEN {[ok |-> TRUE, main |-> main, fallback |-> Nil,
               dials |-> <<Dial(network.RPCURL, TRUE),
                           Dial(network.FallbackURL, FALSE)>>],
              [ok |-> TRUE, main |-> main, fallback |-> fb,
               dials |-> <<Dial(network.RPCURL, TRUE),
                           Dial(network.FallbackURL, TRUE)>>]}
        ELSE {[ok |-> TRUE, main |-> main, fallback |-> Nil,
               dials |-> <<Dial(network.RPCURL, TRUE)>>]})

\* lines 109-120: gethrpc.Dial of the primary URL and, when the network
\* declares one, of the fallback URL.  Each dial succeeds or fails; the
\* result is the pair of handles, or Nil when a dial failed, and the dials
\* made.
Dialed(g, network) ==
  LET main == NextHandle(g, network.RPCURL)
      fb == [main EXCEPT !.n = @ + 1, !.url = network.FallbackURL]
  IN {[ok |-> FALSE, main |-> Nil, fallback |-> Nil,
       dials |-> <<Dial(network.RPCURL, FALSE)>>]}
     \cup
     (IF Len(network.FallbackURL) > 0
        THEN {[ok |-> FALSE, main |-> main, fallback |-> Nil,
               dials |-> <<Dial(network.RPCURL, TRUE),
                           Dial(network.FallbackURL, FALSE)>>],
              [ok |-> TRUE, main |-> main, fallback |-> fb,
               dials |-> <<Dial(network.RPCURL, TRUE),
                           Dial(network.FallbackURL, TRUE)>>]}
        ELSE {[ok |-> TRUE, main |-> main, fallback |-> Nil,
               dials |-> <<Dial(network.RPCURL, TRUE)>>]})

DialEvents(g, dials) ==
  [i \in 1..Len(dials) |-> Event("dial", loc[g].depth, dials[i])]

\* Mutant: the upstream record is the default of every chain id.
UpstreamIsDefault_Always(upstreamChainID, chainID) == TRUE

\* Mutant: the upstream record is the default of no chain id.
UpstreamIsDefault_Never(upstreamChainID, chainID) == FALSE

\* line 103: c.UpstreamChainID == chainID.
UpstreamIsDefault(upstreamChainID, chainID) == upstreamChainID = chainID

\* Mutant: the upstream record serves its chain id whether or not the chain
\* id has a configuration.
FindTarget_UpstreamFirst(network, upstreamChainID, chainID) ==
  IF UpstreamIsDefault(upstreamChainID, chainID) THEN "upstream"
  ELSE IF network = Nil THEN "notfound"
  ELSE "dial"

\* lines 102-109: what getClientUsingCache does with the answer of Find.
FindTarget(network, upstreamChainID, chainID) ==
  IF network = Nil
    THEN IF UpstreamIsDefault(upstreamChainID, chainID) THEN "upstream"
         ELSE "notfound"
    ELSE "dial"

\* lines 101-120: NetworkManager.Find, the test of UpstreamChainID and the
\* dials (which touch nothing but the goroutine's own variables).
GcFind(g) ==
  /\ Running(g) /\ pc[g] = "gc_find"
  /\ LET network == networks[CurChain(g)]
         found == Event("find", loc[g].depth, CurChain(g))
         target == FindTarget(network, UpstreamChainID, CurChain(g))
     IN IF target # "dial"
          THEN /\ log' = [log EXCEPT ![g] = Append(@, found)]
               /\ IF target = "upstream"
                    THEN /\ pc' = [pc EXCEPT ![g] = "gc_upstream"]
                         /\ UNCHANGED <<loc, ret>>
                    ELSE GcReturn(g, Nil, ErrNetworkNotFound, loc[g])
          ELSE \E d \in Dialed(g, network) :
                 /\ log' = [log EXCEPT ![g] = Append(@, found) \o DialEvents(g, d.dials)]
                 /\ IF d.ok
                      THEN /\ pc' = [pc EXCEPT ![g] = "gc_store"]
                           /\ loc' = [loc EXCEPT ![g].network = network,
                                                 ![g].rpcClient = d.main,
                                                 ![g].rpcFallbackClient = d.fallback]
                           /\ UNCHANGED ret
                      ELSE GcReturn(g, Nil, ErrDial, loc[g])
  /\ UNCHANGED <<shared, config, nOps, prev, call>>

\* line 104: return c.upstream, read without the lock.
GcUpstream(g) ==
  /\ Running(g) /\ pc[g] = "gc_upstream"
  /\ GcReturn(g, upstream, NilValue, loc[g])
  /\ UNCHANGED <<shared, config, nOps, prev, call, log>>

\* Mutant: the record is returned but never put in the map.
StoreClient_NotStored(cache, chainID, client) == cache

\* Mutant: a record already in the map is kept (insert if absent).
StoreClient_KeepFirst(cache, chainID, client) ==
  IF cache[chainID] # NoEntry THEN cache ELSE [cache EXCEPT ![chainID] = client]

\* What line 123 leaves in the map.
StoreClient(cache, chainID, client) == [cache EXCEPT ![chainID] = client]

\* lines 122-124: build the record and store it in the map.  A store that
\* overlaps a map access of another goroutine is a data race on the map: the
\* runtime may abort the process.
GcStore(g) ==
  /\ Running(g) /\ pc[g] = "gc_store"
  /\ \/ /\ \E o \in Procs \ {g} : MapAccessBy(o)
        /\ crashed' = TRUE
        /\ UNCHANGED <<rpcClients, upstream, upstreamURL, handlers, networks, mu,
                       stores, config, nOps, prev, pc, call, loc, log, ret>>
     \/ LET client == NewClient(loc[g].rpcClient, loc[g].rpcFallbackClient,
                                CurChain(g))
        IN /\ rpcClients' = StoreClient(rpcClients, CurChain(g), client)
           /\ stores' = Append(stores, client)
           /\ Logged(g, "store", client)
           /\ GcReturn(g, client, NilValue, loc[g])
           /\ UNCHANGED <<upstream, upstreamURL, handlers, networks, mu,
                          crashed, config, nOps, prev, call>>

\* --------------------------------------------------- UpdateUpstreamURL
\* Mutant: the fields are assigned before the error of the dial is tested.
UuDialFailed_Assigns(g, url) ==
  /\ Return(g, [NoRet EXCEPT !.err = ErrDialUpdate])
  /\ upstream' = NewSimpleClient(Nil, UpstreamChainID)
  /\ upstreamURL' = url

\* lines 156-159 when gethrpc.Dial(url) fails: return err, nothing written.
UuDialFailed(g, url) ==
  /\ Return(g, [NoRet EXCEPT !.err = ErrDialUpdate])
  /\ UNCHANGED <<upstream, upstreamURL>>

\* lines 156-159 when gethrpc.Dial(url) succeeds: go on to c.Lock().
UuDialed(g, url) ==
  /\ pc' = [pc EXCEPT ![g] = "uu_lock"]
  /\ UNCHANGED <<ret, upstream, upstreamURL>>

\* Mutant: the update goes on without an upstream record.
UpstreamAbsent_Never(u) == FALSE

\* line 152: c.upstream == nil.
UpstreamAbsent(u) == u = Nil

\* lines 151-159: the nil test of c.upstream, read without the lock, and
\* gethrpc.Dial(url), which succeeds or fails.
UpdateUpstreamURL(g) ==
  LET url == UpdateURL(g)
      old == [upstream |-> upstream, url |-> upstreamURL]
  IN
    /\ Start(g, [NoCall EXCEPT !.op = "UpdateUpstreamURL", !.url = url])
    /\ IF UpstreamAbsent(upstream)
         THEN /\ Return(g, NoRet)
              /\ loc' = [loc EXCEPT ![g].old = old]
              /\ UNCHANGED <<log, upstream, upstreamURL>>
         ELSE \/ /\ UuDialed(g, url)
                 /\ log' = [log EXCEPT ![g] = <<Event("dial", 0, Dial(url, TRUE))>>]
                 /\ loc' = [loc EXCEPT ![g].old = old,
                                       ![g].rpcClient = Handle(nOps + 1, 1, url)]
              \/ /\ UuDialFailed(g, url)
                 /\ log' = [log EXCEPT ![g] = <<Event("dial", 0, Dial(url, FALSE))>>]
                 /\ loc' = [loc EXCEPT ![g].old = old]
    /\ UNCHANGED <<rpcClients, handlers, networks, mu, crashed, stores, config,
                   prev>>

\* line 160: c.Lock().
UuLock(g) ==
  /\ Running(g) /\ pc[g] = "uu_lock"
  /\ mu = "free"
  /\ mu' = g
  /\ pc' = [pc EXCEPT ![g] = "uu_setupstream"]
  /\ UNCHANGED <<rpcClients, upstream, upstreamURL, handlers, networks,
                 crashed, stores, config, nOps, prev, call, loc, log, ret>>

\* line 161: c.upstream = chain.NewSimpleClient(rpcClient, c.UpstreamChainID).
UuSetUpstream(g) ==
  /\ Running(g) /\ pc[g] = "uu_setupstream"
  /\ upstream' = NewSimpleClient(loc[g].rpcClient, UpstreamChainID)
  /\ Logged(g, "setupstream", upstream')
  /\ pc' = [pc EXCEPT ![g] = "uu_seturl"]
  /\ UNCHANGED <<rpcClients, upstreamURL, handlers, networks, mu,
                 crashed, stores, config, nOps, prev, call, loc, ret>>

\* line 162: c.upstreamURL = url.
UuSetURL(g) ==
  /\ Running(g) /\ pc[g] = "uu_seturl"
  /\ upstreamURL' = call[g].url
  /\ Logged(g, "seturl", call[g].url)
  /\ pc' = [pc EXCEPT ![g] = "uu_unlock"]
  /\ UNCHANGED <<rpcClients, upstream, handlers, networks, mu,
                 crashed, stores, config, nOps, prev, call, loc, ret>>

\* lines 163-165: c.Unlock(); return nil.
UuUnlock(g) ==
  /\ Running(g) /\ pc[g] = "uu_unlock"
  /\ mu' = "free"
  /\ Return(g, NoRet)
  /\ UNCHANGED <<rpcClients, upstream, upstreamURL, handlers, networks,
                 crashed, stores, config, nOps, prev, call, loc, log>>

\* --------------------------------------------------------- CallContext
\* Mutant: the handler lookup comes before the blocked test.
CallContextTarget_HandlerFirst(method, hs) ==
  IF hs[method] # NoHandler THEN "handler"
  ELSE IF routeBlocked(method) THEN "blocked"
  ELSE "network"

\* Mutant: registered handlers are not consulted.
CallContextTarget_NoLookup(method, hs) ==
  IF routeBlocked(method) THEN "blocked" ELSE "network"

\* Where CallContext sends a call: lines 190-199.
CallContextTarget(method, hs) ==
  IF routeBlocked(method) THEN "blocked"
  ELSE IF handlerFor(hs, method).ok THEN "handler"
  ELSE "network"

\* Mutant: the call is not counted.
CountCall_Skipped(method) == <<>>

\* line 189: rpcstats.CountCall(method), as what it leaves in the log.
CountCall(method) == <<Event("count", 0, method)>>

\* Call and CallContext (Call only supplies the background context), lines
\* 188-200: CountCall, the blocked test, the handler lookup, and without a
\* handler the routing of CallContextIgnoringLocalHandlers.
CallContext(g) ==
  \E result \in Results, chainID \in ChainIDs, method \in Methods :
    /\ Start(g, [NoCall EXCEPT !.op = "CallContext", !.result = result,
                               !.chainID = chainID, !.method = method,
                               !.registered = handlers[method]])
    /\ log' = [log EXCEPT ![g] = CountCall(method)]
    /\ LET target == CallContextTarget(method, handlers)
       IN CASE target = "blocked" ->
                 /\ Return(g, [NoRet EXCEPT !.err = ErrMethodNotFound])
                 /\ UNCHANGED loc
            [] target = "handler" ->
                 /\ pc' = [pc EXCEPT ![g] = "cm_invoke"]
                 /\ loc' = [loc EXCEPT ![g].handler =
                                        handlerFor(handlers, method).handler]
                 /\ UNCHANGED ret
            [] OTHER -> CiEntry(g, method, NoLoc)
    /\ UNCHANGED <<shared, config, prev>>

\* CallContextIgnoringLocalHandlers called directly, lines 209-227.
CallContextIgnoringLocalHandlers(g) ==
  \E result \in Results, chainID \in ChainIDs, method \in Methods :
    /\ Start(g, [NoCall EXCEPT !.op = "CallContextIgnoringLocalHandlers",
                               !.result = result, !.chainID = chainID,
                               !.method = method])
    /\ CiEntry(g, method, NoLoc)
    /\ UNCHANGED <<shared, config, prev, log>>

\* ------------------------------------------------- result binding
Quote == "\""
\* encoding/json of a string: quotes around the escaped characters.
Quoted(v) ==
  <<Quote>> \o [i \in 1..Len(v) |-> IF v[i] = Quote THEN "\\\"" ELSE v[i]]
            \o <<Quote>>

\* encoding/base64 of the byte sequences that are marshalled here.
Base64(v) == IF v = <<"a", "b", "c">> THEN <<"Y", "W", "J", "j">> ELSE <<>>

\* encoding/json of a json.RawMessage: the message without its insignificant
\* white space, when it is a JSON document (here: its braces match).
Compact(v) == SelectSeq(v, LAMBDA t : t # " ")
IsDocument(v) ==
  /\ v # <<>>
  /\ Len(SelectSeq(v, LAMBDA t : t = "{")) = Len(SelectSeq(v, LAMBDA t : t = "}"))

\* Mutant: the nil interface value has no encoding.
Marshal_NilUnsupported(response) ==
  CASE response.type = "int" -> [err |-> NilValue, data |-> response.v]
    [] response.type = "string" -> [err |-> NilValue, data |-> Quoted(response.v)]
    [] response.type = "struct" ->
         [err |-> NilValue,
          data |-> <<"{">> \o Quoted(<<response.v[1]>>) \o <<":", response.v[2], "}">>]
    [] response.type = "bytes" ->
         [err |-> NilValue, data |-> Quoted(Base64(response.v))]
    [] response.type = "raw" ->
         IF IsDocument(response.v)
           THEN [err |-> NilValue, data |-> Compact(response.v)]
           ELSE [err |-> ErrMarshal, data |-> <<>>]
    [] OTHER -> [err |-> ErrMarshal, data |-> <<>>]

\* json.Marshal(response): the encoding, or an error for a value that has
\* none.
Marshal(response) ==
  CASE response.type = "nil" ->
         [err |-> NilValue, data |-> <<"n", "u", "l", "l">>]
    [] response.type = "int" -> [err |-> NilValue, data |-> response.v]
    [] response.type = "string" -> [err |-> NilValue, data |-> Quoted(response.v)]
    [] response.type = "struct" ->
         [err |-> NilValue,
          data |-> <<"{">> \o Quoted(<<response.v[1]>>) \o <<":", response.v[2], "}">>]
    [] response.type = "bytes" ->
         [err |-> NilValue, data |-> Quoted(Base64(response.v))]
    [] response.type = "raw" ->
         IF IsDocument(response.v)
           THEN [err |-> NilValue, data |-> Compact(response.v)]
           ELSE [err |-> ErrMarshal, data |-> <<>>]
    [] OTHER -> [err |-> ErrMarshal, data |-> <<>>]

\* reflect's rule for value.Set: the types are identical, the target is an
\* empty interface, or they share an underlying type and one is unnamed.
AssignableTo(type, elem) ==
  \/ type = elem
  \/ elem = "iface"
  \/ {type, elem} = {"bytes", "raw"}

Bound(err, value) == [err |-> err, written |-> err = NilValue, value |-> value]

\* Mutant: a byte-sequence variable receives the response as it is.
setResultFromRPCResponse_NoMarshal(result, response) ==
  IF result.kind # "pointer"
    THEN Bound(ErrInvalidResultType, Unset)
  ELSE IF response = NilInterface \/ ~AssignableTo(response.type, result.elem)
    THEN Bound(ErrInvalidResultType, Unset)
  ELSE Bound(NilValue, response)

\* A panic, in place of the error of a function that did not return.
Panic == "panic"

\* Mutant: the encoding is assigned although json.Marshal failed.
BindBody_SetsAfterMarshalError(result, response) ==
  IF result.kind # "pointer"
    THEN Bound(Panic, Unset)
  ELSE IF result.elem \in {"raw", "bytes"}
    THEN LET m == Marshal(response)
         IN [err |-> m.err, written |-> TRUE,
             value |-> GoValue(result.elem, m.data)]
  ELSE IF response = NilInterface \/ ~AssignableTo(response.type, result.elem)
    THEN Bound(Panic, Unset)
  ELSE Bound(NilValue, response)

\* lines 276-301, the body of setResultFromRPCResponse: the error returned
\* (or Panic), whether the variable result points to was written, and the
\* value written.  Elem() of a nil interface or of a value that is no
\* pointer, Type() of the Elem() of a nil pointer, and Set of a nil response
\* or of a value that is not assignable panic.  A variable reached through a
\* pointer is always settable, so line 297 is never reached.
BindBody(result, response) ==
  IF result.kind # "pointer"
    THEN Bound(Panic, Unset)
  ELSE IF result.elem \in {"raw", "bytes"}
    THEN LET m == Marshal(response)
         IN Bound(m.err, GoValue(result.elem, m.data))
  ELSE IF response = NilInterface \/ ~AssignableTo(response.type, result.elem)
    THEN Bound(Panic, Unset)
  ELSE Bound(NilValue, response)

\* Mutant: the panic goes on to the caller.
Recovered_Not(b) == b

\* lines 270-274: the deferred recover turns a panic into an error.
Recovered(b) ==
  IF b.err = Panic THEN Bound(ErrInvalidResultType, Unset) ELSE b

\* setResultFromRPCResponse, lines 269-302.
setResultFromRPCResponse(result, response) ==
  Recovered(BindBody(result, response))

\* Mutant: the response is bound before the handler's error is looked at,
\* and a binding error replaces it.
callMethod_BindsFirst(result, response, err) ==
  IF result = NilResult
    THEN Bound(err, Unset)
    ELSE LET b == setResultFromRPCResponse(result, response)
         IN IF b.err # NilValue THEN b ELSE [b EXCEPT !.err = err]

\* Mutant: a nil result is bound like any other.
callMethod_BindsNil(result, response, err) ==
  IF err # NilValue
    THEN [err |-> err, written |-> FALSE, value |-> Unset]
    ELSE setResultFromRPCResponse(result, response)

\* callMethod after the handler returned (response, err), lines 246-256.
callMethod(result, response, err) ==
  IF err # NilValue
    THEN [err |-> err, written |-> FALSE, value |-> Unset]
  ELSE IF result = NilResult
    THEN [err |-> NilValue, written |-> FALSE, value |-> Unset]
  ELSE setResultFromRPCResponse(result, response)

\* lines 246-256: what callMethod does with the handler's answer
\* (response, err), with locals l and log lg.
CallMethodResult(g, response, err, l, lg) ==
  LET b == callMethod(call[g].result, response, err)
  IN /\ Return(g, [NoRet EXCEPT !.err = b.err])
     /\ loc' = [loc EXCEPT ![g] = IF b.written THEN [l EXCEPT !.slot = b.value]
                                               ELSE l]
     /\ log' = [log EXCEPT ![g] =
                 IF err = NilValue /\ call[g].result # NilResult
                   THEN Append(lg, Event("setresult", 0, b))
                   ELSE lg]

\* line 245: response, err := handler(ctx, chainID, args...), and for a
\* handler that returns at once the rest of callMethod.  A "bypass" handler
\* calls CallContextIgnoringLocalHandlers for a method of its choice.
CmInvoke(g) ==
  /\ Running(g) /\ pc[g] = "cm_invoke"
  /\ LET lg == Append(log[g], Event("handler", 0, [handler |-> loc[g].handler,
                                                   chainID |-> call[g].chainID]))
     IN CASE loc[g].handler = "value" ->
               CallMethodResult(g, HandlerResponse, NilValue,
                                [loc[g] EXCEPT !.response = HandlerResponse], lg)
          [] loc[g].handler = "fail" ->
               CallMethodResult(g, NilInterface, ErrHandler,
                                [loc[g] EXCEPT !.herr = ErrHandler], lg)
          [] OTHER ->
               /\ log' = [log EXCEPT ![g] = lg]
               /\ \E method \in Methods :
                    CiEntry(g, method, [loc[g] EXCEPT !.depth = 1, !.inner = method])
  /\ UNCHANGED <<shared, config, nOps, prev, call>>

\* The handler that called CallContextIgnoringLocalHandlers returns what the
\* call produced: the rest of callMethod, lines 246-256.
CmResult(g) ==
  /\ Running(g) /\ pc[g] = "cm_result"
  /\ CallMethodResult(g, loc[g].response, loc[g].herr, loc[g], log[g])
  /\ UNCHANGED <<shared, config, nOps, prev, call>>

\* --------------------------------------------------------- transports
\* The context passed to the running operation of g has been cancelled.
Cancelled(g) == ctx.done /\ ctx.no = call[g].no /\ call[g].op # "none"

\* The transport answered: the reply goes to the caller's result (to the
\* handler's own variable when the handler made the call), or an error comes
\* back and nothing is written.
\* With the context of the call cancelled the transport stops waiting and
\* returns the context's error.
Transport(g, target) ==
  /\ Logged(g, "call", [target |-> target, method |-> CurMethod(g)])
  /\ IF Cancelled(g)
       THEN CiReturn(g, ErrCanceled, loc[g])
       ELSE \/ CiReturn(g, ErrTransport, loc[g])
            \/ IF loc[g].depth = 1
                 THEN CiReturn(g, NilValue, [loc[g] EXCEPT !.response = TransportReply])
                 ELSE IF call[g].result = NilResult
                   THEN CiReturn(g, NilValue, loc[g])
                   ELSE CiReturn(g, NilValue, [loc[g] EXCEPT !.slot = TransportReply])

\* line 219: client.CallContext(ctx, result, method, args...); a nil client
\* panics.
TrRemote(g) ==
  /\ Running(g) /\ pc[g] = "tr_remote"
  /\ IF loc[g].client = Nil
       THEN /\ crashed' = TRUE
            /\ UNCHANGED <<pc, loc, log, ret>>
       ELSE /\ Transport(g, loc[g].client)
            /\ UNCHANGED crashed
  /\ UNCHANGED <<rpcClients, upstream, upstreamURL, handlers, networks, mu,
                 stores, config, nOps, prev, call>>

\* line 226: c.local.CallContext(ctx, result, method, args...).
TrLocal(g) ==
  /\ Running(g) /\ pc[g] = "tr_local"
  /\ Transport(g, local)
  /\ UNCHANGED <<shared, config, nOps, prev, call>>

\* ---------------------------------------------------------------- Next
Next ==
  \/ UpdateNetwork
  \/ \E g \in Procs :
       \/ EthClient(g)
       \/ EthClients(g)
       \/ UpdateUpstreamURL(g)
       \/ CallContext(g)
       \/ CallContextIgnoringLocalHandlers(g)
       \/ RegisterHandler(g)
       \/ Retire(g)
       \/ GcRead(g)
       \/ GcFind(g)
       \/ GcUpstream(g)
       \/ GcStore(g)
       \/ UuLock(g)
       \/ UuSetUpstream(g)
       \/ UuSetURL(g)
       \/ UuUnlock(g)
       \/ CmInvoke(g)
       \/ CmResult(g)
       \/ TrRemote(g)
       \/ TrLocal(g)

Spec == Init /\ [][Next]_vars

\* ------------------------------------------------- callMethod by itself
\* line 245: the handler is invoked and returns a response or an error.
BindInvoke ==
  /\ bind.stage = "entered"
  /\ \E response \in Responses, herr \in {NilValue, ErrHandler} :
       /\ herr # NilValue => response = NilInterface
       /\ bind' = [bind EXCEPT !.stage = "invoked", !.invoked = @ + 1,
                               !.response = response, !.herr = herr]
  /\ UNCHANGED <<shared, UpstreamChainID, upstreamEnabled, local, procs, nOps,
                 pc, call, loc, log, ret, prev, ctx, built, db,
                 reg, saved, gaps, backup>>

\* lines 246-256: the rest of callMethod.
BindReturn ==
  /\ bind.stage = "invoked"
  /\ bind' = [bind EXCEPT !.stage = "returned",
                          !.out = callMethod(bind.result, bind.response, bind.herr)]
  /\ UNCHANGED <<shared, UpstreamChainID, upstreamEnabled, local, procs, nOps,
                 pc, call, loc, log, ret, prev, ctx, built, db,
                 reg, saved, gaps, backup>>

NextBind == BindInvoke \/ BindReturn

SpecBind == InitBind /\ [][NextBind]_vars

SpecSeq == InitSeq /\ [][Next]_vars

\* ------------------------------------------------- cancelled contexts
\* The caller cancels the context it passed to the running call of g (or
\* the deadline of the context passes).
Cancel(g) ==
  /\ ~crashed /\ ~Returning
  /\ g \in procs
  /\ pc[g] # "idle"
  /\ ~ctx.done
  /\ ctx' = [done |-> TRUE, no |-> call[g].no, at |-> pc[g], len |-> Len(log[g])]
  /\ UNCHANGED <<shared, UpstreamChainID, upstreamEnabled, local, procs, bind,
                 built, db, reg, saved, gaps, backup, nOps, pc, call, loc, log, ret,
                 prev>>

\* A lone goroutine calls CallContextIgnoringLocalHandlers and cancels the
\* context of one of its calls.
NextCtx ==
  \E g \in Procs :
    \/ Cancel(g)
    \/ CallContextIgnoringLocalHandlers(g)
    \/ Retire(g)
    \/ GcRead(g)
    \/ GcFind(g)
    \/ GcUpstream(g)
    \/ GcStore(g)
    \/ TrRemote(g)
    \/ TrLocal(g)

SpecCtx == InitSeq /\ [][NextCtx]_vars

\* ------------------------------------------------------------ NewClient
\* No Client was built: no field has a value, the network manager holds no
\* network, and no goroutine uses a client.
Unbuilt ==
  /\ upstreamEnabled = FALSE
  /\ UpstreamChainID = 0
  /\ upstreamURL = NoURL
  /\ upstream = Nil
  /\ local = Nil
  /\ networks = [c \in ChainIDs |-> Nil]
  /\ rpcClients = [c \in ChainIDs |-> NoEntry]
  /\ handlers = [m \in Methods |-> NoHandler]
  /\ mu = "free"
  /\ crashed = FALSE
  /\ nOps = 0
  /\ pc = [g \in Procs |-> "idle"]
  /\ call = [g \in Procs |-> NoCall]
  /\ loc = [g \in Procs |-> NoLoc]
  /\ log = [g \in Procs |-> <<>>]
  /\ ret = [g \in Procs |-> NoRet]
  /\ stores = <<>>
  /\ prev = NoPrev
  /\ ctx = LiveCtx
  /\ bind = NoBind
  /\ procs = {}

\* NewClient is entered with its arguments.
InitNew ==
  /\ Unbuilt
  /\ db = NoDB
  /\ Unused
  /\ \E client \in {Nil, LocalClient}, id \in ChainIDs, enabled \in BOOLEAN :
      \E ns \in [ChainIDs -> UNION {NetworkConfigs(c) : c \in ChainIDs}] :
        /\ \A c \in ChainIDs : ns[c] \in NetworkConfigs(c)
        /\ built = [NoBuilt EXCEPT !.stage = "entered", !.client = client,
                                   !.upstreamChainID = id, !.enabled = enabled,
                                   !.networks = ns]

\* Mutant: the error of networkManager.Init ends NewClient.
InitFailed_Returns(b, err) ==
  [b EXCEPT !.stage = "returned", !.initErr = err, !.err = err]

\* lines 67-70 when networkManager.Init fails: the error is logged and
\* NewClient goes on.
InitFailed(b, err) ==
  [b EXCEPT !.stage = "manager", !.initErr = err, !.logged = <<err>>]

\* lines 66-70: networkManager.Init(networks) stores the networks, or
\* fails having stored some of them.
NcInit ==
  /\ built.stage = "entered"
  /\ \/ /\ networks' = built.networks
        /\ built' = [built EXCEPT !.stage = "manager"]
     \/ /\ \E ns \in [ChainIDs -> UNION {NetworkConfigs(c) : c \in ChainIDs}] :
             /\ \A c \in ChainIDs : ns[c] \in {Nil, built.networks[c]}
             /\ networks' = ns
        /\ built' = InitFailed(built, ErrInit)
  /\ UNCHANGED <<rpcClients, upstream, upstreamURL, handlers, mu, crashed,
                 stores, UpstreamChainID, upstreamEnabled, local, procs, bind,
                 ctx, db, reg, saved, gaps, backup, nOps, pc, call, loc, log, ret,
                 prev>>

\* Mutant: NewClient goes on without the upstream record.
UpstreamDialFailed_GoesOn(b) ==
  [b EXCEPT !.stage = "router",
            !.dials = <<Event("dial", 0, Dial(InitialUpstreamURL, FALSE))>>]

\* lines 85-87: the dial of the upstream URL failed, NewClient returns
\* (nil, error).
UpstreamDialFailed(b) ==
  [b EXCEPT !.stage = "returned", !.err = ErrDial,
            !.dials = <<Event("dial", 0, Dial(InitialUpstreamURL, FALSE))>>]

\* lines 72-89: the Client is filled in and, with the upstream enabled, the
\* upstream URL is dialed; a failed dial ends NewClient with an error.
NcUpstream ==
  /\ built.stage = "manager"
  /\ local' = built.client
  /\ IF built.enabled
       THEN /\ UpstreamChainID' = built.upstreamChainID
            /\ upstreamEnabled' = TRUE
            /\ upstreamURL' = InitialUpstreamURL
            /\ \/ /\ upstream' = NewSimpleClient(Handle(0, 1, InitialUpstreamURL),
                                                  built.upstreamChainID)
                  /\ built' = [built EXCEPT
                                 !.stage = "router",
                                 !.dials = <<Event("dial", 0,
                                                  Dial(InitialUpstreamURL, TRUE))>>]
               \/ /\ UNCHANGED upstream
                  /\ built' = UpstreamDialFailed(built)
       ELSE /\ built' = [built EXCEPT !.stage = "router"]
            /\ UNCHANGED <<UpstreamChainID, upstreamEnabled, upstreamURL, upstream>>
  /\ UNCHANGED <<rpcClients, handlers, networks, mu, crashed, stores, procs,
                 bind, ctx, db, reg, saved, gaps, backup, nOps, pc, call, loc, log, ret,
                 prev>>

\* lines 91-93: the router is made and the Client returned.
NcReturn ==
  /\ built.stage = "router"
  /\ built' = [built EXCEPT !.stage = "returned", !.ok = TRUE]
  /\ UNCHANGED <<shared, UpstreamChainID, upstreamEnabled, local, procs, bind,
                 ctx, db, reg, saved, gaps, backup, nOps, pc, call, loc, log, ret,
                 prev>>

\* The application got a Client and a goroutine begins to use it.
NcUse ==
  /\ built.stage = "returned"
  /\ built.ok
  /\ built' = NoBuilt
  /\ procs' = {"g1"}
  /\ UNCHANGED <<shared, UpstreamChainID, upstreamEnabled, local, bind,
                 ctx, db, reg, saved, gaps, backup, nOps, pc, call, loc, log, ret,
                 prev>>

\* NewClient, and then the operations of the client it returned.
NextNew == NcInit \/ NcUpstream \/ NcReturn \/ NcUse \/ Next

SpecNew == InitNew /\ [][NextNew]_vars

\* ------------------------------------------- mailserver Database.SetTopics
ErrBegin == "begin error"
ErrQuery == "query error"
ErrExec == "exec error"
ErrCommit == "commit error"

\* Longest list of filters passed to SetTopics.
MaxFilters == 2

\* types.TopicType values and filter.Topic.String(), their hex text.
TopicTypes == {"01", "02"}
TopicString(t) == <<"0x", t>>
TopicKeys == {TopicString(t) : t \in TopicTypes}

\* transport.Filter: the fields SetTopics reads.
Filter(topic, discovery) ==
  [Topic |-> topic, Discovery |-> discovery, Negotiated |-> FALSE]
Filters == {Filter(t, d) : t \in TopicTypes, d \in BOOLEAN}
FilterLists == UNION {[1..n -> Filters] : n \in 0..MaxFilters}

\* A row of mailserver_topics, and the table: topic -> row or NoRow.
Row(lastRequest, discovery, negotiated) ==
  [last_request |-> lastRequest, discovery |-> discovery,
   negotiated |-> negotiated]
\* last_request of the rows stored before the call ("default is 1").
StoredLastRequest == 1
StoredRow == Row(StoredLastRequest, FALSE, FALSE)
Tables == [TopicKeys -> {NoRow, StoredRow}]

\* time.Now().Unix() at the call, and line 991: now - 1.day.
Now == 172800
DayAgo(now) == now - 24 * 3600

\* The topics of a list of filters, as the statements receive them.
Listed(filters) == {TopicString(filters[i].Topic) : i \in 1..Len(filters)}

\* SetTopics is entered with a list of filters on a database that holds
\* some topics; no client is in use.
InitTopics ==
  /\ Unbuilt
  /\ built = NoBuilt
  /\ Unused
  /\ \E table \in Tables, filters \in FilterLists :
       db = [NoDB EXCEPT !.stage = "entered", !.topics = table,
                         !.before = table, !.filters = filters]

\* Everything but the database.
client == <<shared, UpstreamChainID, upstreamEnabled, local, procs, bind, ctx,
            built, reg, saved, gaps, backup, nOps, pc, call, loc, log, ret, prev>>

\* lines 967-973 and the return: with err nil the deferred function commits,
\* which puts the transaction's rows in the table or fails; with an error
\* it rolls back and the error is returned.
Finished(d, err) ==
  IF err = NilValue
    THEN {[d EXCEPT !.stage = "returned", !.topics = d.tx],
          [d EXCEPT !.stage = "returned", !.err = ErrCommit]}
    ELSE {[d EXCEPT !.stage = "returned", !.err = err]}

\* lines 962-966: d.db.Begin(); its error is returned as it is.
StBegin ==
  /\ db.stage = "entered"
  /\ \/ db' = [db EXCEPT !.stage = "begun", !.tx = db.topics]
     \/ db' = [db EXCEPT !.stage = "returned", !.err = ErrBegin]
  /\ UNCHANGED client

\* Mutant: the rows of the listed topics are the ones deleted.
DeleteNotIn_In(table, listed) ==
  [k \in DOMAIN table |-> IF k \in listed THEN NoRow ELSE table[k]]

\* line 987: DELETE FROM mailserver_topics WHERE topic NOT IN (...).
DeleteNotIn(table, listed) ==
  [k \in DOMAIN table |-> IF k \in listed THEN table[k] ELSE NoRow]

\* lines 975-988: an empty list returns at once; else the rows of the
\* topics not listed are deleted.  The error of that statement is assigned
\* to err and overwritten by line 996 before anything reads it.
StDelete ==
  /\ db.stage = "begun"
  /\ IF db.filters = <<>>
       THEN db' \in Finished(db, NilValue)
       ELSE \/ db' = [db EXCEPT !.stage = "loop", !.idx = 1,
                                !.tx = DeleteNotIn(db.tx, Listed(db.filters))]
            \/ db' = [db EXCEPT !.stage = "loop", !.idx = 1,
                                !.deleteErr = ErrExec]
  /\ UNCHANGED client

\* Mutant: INSERT OR REPLACE, the row of a stored topic is written anew.
Inserted_OrReplaced(table, filter, lastRequest) ==
  [table EXCEPT ![TopicString(filter.Topic)] =
     Row(lastRequest, filter.Discovery, filter.Negotiated)]

\* lines 996-1002: the row of the filter's topic is inserted when the
\* SELECT found none.
Inserted(table, filter, lastRequest) ==
  IF table[TopicString(filter.Topic)] # NoRow THEN table
  ELSE [table EXCEPT ![TopicString(filter.Topic)] =
          Row(lastRequest, filter.Discovery, filter.Negotiated)]

\* lines 993-1006, one round of the loop: the SELECT fails, or finds the
\* row, or finds none and the INSERT succeeds or fails.
StFilter ==
  /\ db.stage = "loop"
  /\ db.idx <= Len(db.filters)
  /\ LET filter == db.filters[db.idx]
     IN \/ db' \in Finished(db, ErrQuery)
        \/ db' = [db EXCEPT !.idx = @ + 1,
                            !.tx = Inserted(db.tx, filter, DayAgo(Now))]
        \/ /\ db.tx[TopicString(filter.Topic)] = NoRow
           /\ db' \in Finished(db, ErrExec)
  /\ UNCHANGED client

\* line 1008: return after the last filter.
StReturn ==
  /\ db.stage = "loop"
  /\ db.idx > Len(db.filters)
  /\ db' \in Finished(db, NilValue)
  /\ UNCHANGED client

NextTopics == StBegin \/ StDelete \/ StFilter \/ StReturn

SpecTopics == InitTopics /\ [][NextTopics]_vars

\* ------------------------------------- handlersMx and running handlers
\* CallContext, handler, RegisterHandler and callMethod with the RWMutex
\* handlersMx made explicit.  A Handler is caller code: while it runs it may
\* call RegisterHandler, or CallContext for another method, and then returns.
MaxRegOps == 2
MaxNesting == 2

\* The handlers registered in this machine; what they do is decided when
\* they run.
RegistryHandlers == {"h1"}

\* A frame of a goroutine's stack: the operation, its method, the handler
\* (the argument of RegisterHandler, or what the lookup of CallContext
\* found), the step it is at, and what the handler it invoked went on to do.
Frame(op, method, handler, at) ==
  [op |-> op, method |-> method, handler |-> handler, pc |-> at,
   did |-> "", target |-> ""]

Busy(g) == reg.stack[g] # <<>>
Top(g) == reg.stack[g][Len(reg.stack[g])]
At(g, at) == Busy(g) /\ Top(g).pc = at
Below(g) == SubSeq(reg.stack[g], 1, Len(reg.stack[g]) - 1)

\* The frames of CallContext on the stack of g.
Nesting(g) ==
  Len(SelectSeq(reg.stack[g], LAMBDA f : f.op = "CallContext"))

\* sync.RWMutex: RLock waits while a writer holds the lock or waits for it;
\* Lock waits until no reader and no writer holds it.
CanRLock == reg.writer = "free" /\ reg.pending = {}
CanLock == reg.writer = "free" /\ \A g \in Procs : reg.readers[g] = 0

\* Everything but the registry.
registryRest == <<rpcClients, upstream, upstreamURL, networks, mu, crashed,
                  stores, UpstreamChainID, upstreamEnabled, local, procs, bind,
                  ctx, built, db, saved, gaps, backup, nOps, pc, call, loc,
                  log, ret, prev>>

\* The registry holds what earlier calls of RegisterHandler left in it.
InitReg ==
  /\ handlers \in [Methods -> {NoHandler} \cup RegistryHandlers]
  /\ reg = NoReg
  /\ upstreamEnabled = FALSE /\ UpstreamChainID = 0 /\ upstreamURL = NoURL
  /\ upstream = Nil /\ local = Nil
  /\ networks = [c \in ChainIDs |-> Nil]
  /\ rpcClients = [c \in ChainIDs |-> NoEntry]
  /\ mu = "free" /\ crashed = FALSE /\ nOps = 0
  /\ pc = [g \in Procs |-> "idle"]
  /\ call = [g \in Procs |-> NoCall]
  /\ loc = [g \in Procs |-> NoLoc]
  /\ log = [g \in Procs |-> <<>>]
  /\ ret = [g \in Procs |-> NoRet]
  /\ stores = <<>> /\ prev = NoPrev /\ ctx = LiveCtx /\ bind = NoBind
  /\ procs = {}
  /\ built = NoBuilt /\ db = NoDB
  /\ saved = NoSaved /\ gaps = NoGaps /\ backup = NoBackup

\* A goroutine calls CallContext, line 188.
LkCallContext(g) ==
  /\ ~Busy(g) /\ reg.n < MaxRegOps
  /\ \E method \in Methods :
       reg' = [reg EXCEPT !.n = @ + 1,
                          !.stack[g] = <<Frame("CallContext", method, NoHandler,
                                               "cc_route")>>]
  /\ UNCHANGED <<handlers, registryRest>>

\* A goroutine calls RegisterHandler, line 233.
LkRegisterHandler(g) ==
  /\ ~Busy(g) /\ reg.n < MaxRegOps
  /\ \E method \in Methods, handler \in RegistryHandlers :
       reg' = [reg EXCEPT !.n = @ + 1,
                          !.stack[g] = <<Frame("RegisterHandler", method, handler,
                                               "r_lock")>>]
  /\ UNCHANGED <<handlers, registryRest>>

\* lines 189-192: a blocked method returns before the registry is read.
LkRoute(g) ==
  /\ At(g, "cc_route")
  /\ reg' = IF routeBlocked(Top(g).method)
              THEN [reg EXCEPT !.stack[g] = Below(g)]
              ELSE [reg EXCEPT !.stack[g][Len(reg.stack[g])].pc = "h_rlock"]
  /\ UNCHANGED <<handlers, registryRest>>

\* lines 261 and 263: c.handlersMx.RLock() returns and, with the lock held
\* for reading, handler, ok := c.handlers[method].
LkRLock(g) ==
  /\ At(g, "h_rlock")
  /\ CanRLock
  /\ reg' = [reg EXCEPT !.readers[g] = @ + 1,
                        !.stack[g][Len(reg.stack[g])].handler =
                           handlerFor(handlers, Top(g).method).handler,
                        !.stack[g][Len(reg.stack[g])].pc = "h_runlock"]
  /\ UNCHANGED <<handlers, registryRest>>

\* Mutant: the read lock is given back when CallContext returns, after the
\* handler ran.
Released_AtCallReturn(readers, g, at) ==
  IF at = "call" /\ readers[g] > 0
    THEN [readers EXCEPT ![g] = @ - 1]
    ELSE readers

\* line 262: defer c.handlersMx.RUnlock() runs when handler returns (at =
\* "lookup"), and nothing is left to release when CallContext returns after
\* callMethod (at = "call").
Released(readers, g, at) ==
  IF at = "lookup" THEN [readers EXCEPT ![g] = @ - 1] ELSE readers

\* lines 264-265 and 195-199: handler returns; with a handler callMethod is
\* next, without one CallContextIgnoringLocalHandlers takes the call to a
\* transport and the registry is not used again.
LkRUnlock(g) ==
  /\ At(g, "h_runlock")
  /\ LET readers == Released(reg.readers, g, "lookup")
     IN reg' = IF Top(g).handler # NoHandler
                 THEN [reg EXCEPT !.readers = readers,
                                  !.stack[g][Len(reg.stack[g])].pc = "cm_invoke"]
                 ELSE [reg EXCEPT !.readers = readers, !.stack[g] = Below(g)]
  /\ UNCHANGED <<handlers, registryRest>>

\* line 245: the handler runs.  It returns at once, or first calls
\* RegisterHandler (for its own or another method), or first calls
\* CallContext for another method.
LkInvoke(g) ==
  /\ At(g, "cm_invoke")
  /\ LET top == Len(reg.stack[g])
         own == Top(g).method
     IN \/ reg' = [reg EXCEPT !.stack[g][top].pc = "cm_return"]
        \/ \E method \in Methods, handler \in RegistryHandlers :
             reg' = [reg EXCEPT !.stack[g] =
               Append([reg.stack[g] EXCEPT ![top].pc = "cm_return",
                                           ![top].did = "register",
                                           ![top].target = method],
                      Frame("RegisterHandler", method, handler, "r_lock"))]
        \/ /\ Nesting(g) < MaxNesting
           /\ \E method \in Methods \ {own} :
                reg' = [reg EXCEPT !.stack[g] =
                  Append([reg.stack[g] EXCEPT ![top].pc = "cm_return",
                                              ![top].did = "call",
                                              ![top].target = method],
                         Frame("CallContext", method, NoHandler, "cc_route"))]
  /\ UNCHANGED <<handlers, registryRest>>

\* lines 246-256 and 196: the handler returned, callMethod and CallContext
\* return.
LkReturn(g) ==
  /\ At(g, "cm_return")
  /\ reg' = [reg EXCEPT
       !.readers = Released(reg.readers, g, "call"),
       !.stack[g] = Below(g)]
  /\ UNCHANGED <<handlers, registryRest>>

\* line 234: c.handlersMx.Lock() is called: from now on new readers wait.
LkLock(g) ==
  /\ At(g, "r_lock")
  /\ reg' = [reg EXCEPT !.pending = @ \cup {g},
                        !.stack[g][Len(reg.stack[g])].pc = "r_wait"]
  /\ UNCHANGED <<handlers, registryRest>>

\* lines 234 and 237: Lock returns and, with the lock held for writing,
\* c.handlers[method] = handler.
LkAcquire(g) ==
  /\ At(g, "r_wait")
  /\ CanLock
  /\ handlers' = StoreHandler(handlers, Top(g).method, Top(g).handler)
  /\ reg' = [reg EXCEPT !.pending = @ \ {g}, !.writer = g,
                        !.stack[g][Len(reg.stack[g])].pc = "r_unlock"]
  /\ UNCHANGED registryRest

\* line 235: the deferred c.handlersMx.Unlock(), and RegisterHandler returns.
LkUnlock(g) ==
  /\ At(g, "r_unlock")
  /\ reg' = [reg EXCEPT !.writer = "free", !.stack[g] = Below(g)]
  /\ UNCHANGED <<handlers, registryRest>>

\* The steps of a goroutine inside an operation.
LkStep(g) ==
  \/ LkRoute(g) \/ LkRLock(g) \/ LkRUnlock(g)
  \/ LkInvoke(g) \/ LkReturn(g)
  \/ LkLock(g) \/ LkAcquire(g) \/ LkUnlock(g)

NextReg ==
  \E g \in Procs :
    \/ LkCallContext(g)
    \/ LkRegisterHandler(g)
    \/ LkRoute(g)
    \/ LkRLock(g)
    \/ LkRUnlock(g)
    \/ LkInvoke(g)
    \/ LkReturn(g)
    \/ LkLock(g)
    \/ LkAcquire(g)
    \/ LkUnlock(g)

\* The Go scheduler lets every goroutine that can run do so eventually.
SpecReg ==
  /\ InitReg
  /\ [][NextReg]_vars
  /\ \A g \in Procs : WF_vars(LkStep(g))

\* ------------------------------------------------------ saved addresses
\* SavedAddressesManager: the row of one key (address, ENS name, isTest) of
\* saved_addresses, and the sync updates delivered for it one after another,
\* in any order.
MaxUpdates == 2

ErrNoRows == "sql: no rows in result set"

\* update_clock values, and the names a saved address is given.
Clocks == {1, 2, 3}
Names == {"a", "b"}

\* A row of the key: the data and the savedAddressMeta of lines 11-14.
SavedRow(name, removed, clock) ==
  [Name |-> name, Removed |-> removed, UpdateClock |-> clock]

\* The row a key has before the updates arrive, when it has one.
StoredClock == 2
StoredAddress == SavedRow("a", FALSE, StoredClock)

\* The sync updates: AddSavedAddressIfNewerUpdate(sa, updateClock) with the
\* name carried by sa, and DeleteSavedAddress(address, ens, isTest,
\* updateClock).
Updates ==
  {[op |-> "add", clock |-> c, name |-> n] : c \in Clocks, n \in Names}
    \cup {[op |-> "delete", clock |-> c, name |-> ""] : c \in Clocks}

\* Sets of at most MaxUpdates updates with pairwise distinct clocks.
UpdateSets ==
  {S \in SUBSET Updates :
     /\ Cardinality(S) <= MaxUpdates
     /\ \A u, v \in S : u # v => u.clock # v.clock}

\* Everything but the saved_addresses table.
savedRest == <<shared, UpstreamChainID, upstreamEnabled, local, procs, bind,
               ctx, built, db, reg, gaps, backup, nOps, pc, call, loc, log,
               ret, prev>>

InitSaved ==
  /\ Unbuilt
  /\ built = NoBuilt /\ db = NoDB
  /\ reg = NoReg /\ gaps = NoGaps /\ backup = NoBackup
  /\ \E row \in {NoRow, StoredAddress}, S \in UpdateSets :
       saved = [NoSaved EXCEPT !.stage = "idle", !.row = row, !.start = row,
                               !.all = S, !.todo = S]

\* Mutant: an update with the stored clock counts as newer.
Newer_OrEqual(row, updateClock) ==
  IF row = NoRow
    THEN [newer |-> TRUE, err |-> ErrNoRows]
    ELSE [newer |-> row.UpdateClock <= updateClock, err |-> NilValue]

\* lines 115-125: SELECT update_clock of the key and Scan.  Without a row
\* Scan returns sql.ErrNoRows and newer is err == sql.ErrNoRows.
Newer(row, updateClock) ==
  IF row = NoRow
    THEN [newer |-> TRUE, err |-> ErrNoRows]
    ELSE [newer |-> row.UpdateClock < updateClock, err |-> NilValue]

\* lines 141-142 and 85-97: INSERT OR REPLACE of sa with sa.UpdateClock =
\* updateClock.
Upserted(row, u) == SavedRow(u.name, FALSE, u.clock)

\* lines 166-171: UPDATE ... SET removed = 1, update_clock = ? of the key's
\* row, when there is one.
Removed(row, u) ==
  IF row = NoRow THEN NoRow
  ELSE [row EXCEPT !.Removed = TRUE, !.UpdateClock = u.clock]

\* lines 111-114, first statement of both operations: tx, err =
\* sam.db.Begin() for the next update delivered; when it fails the check
\* returns (false, nil, err).
SaBegin ==
  /\ saved.stage = "idle"
  /\ \E u \in saved.todo :
       LET s == [saved EXCEPT !.u = u, !.before = saved.row, !.tx = NoRow,
                              !.begun = FALSE, !.newer = FALSE, !.ok = FALSE,
                              !.err = NilValue, !.commits = 0,
                              !.rollbacks = 0, !.onNil = FALSE]
       IN \/ saved' = [s EXCEPT !.stage = "check", !.begun = TRUE,
                                !.tx = saved.row]
          \/ saved' = [s EXCEPT !.stage = "finish", !.err = ErrBegin]
  /\ UNCHANGED savedRest

\* lines 115-125 and 137-139 (162-164): the check, and return false, err
\* when the update is not newer or Scan failed otherwise.
SaCheck ==
  /\ saved.stage = "check"
  /\ \/ LET c == Newer(saved.tx, saved.u.clock)
        IN saved' = [saved EXCEPT !.newer = c.newer, !.err = c.err,
                       !.stage = IF c.newer THEN "write" ELSE "finish"]
     \/ saved' = [saved EXCEPT !.newer = FALSE, !.err = ErrQuery,
                               !.stage = "finish"]
  /\ UNCHANGED savedRest

\* lines 141-147 of AddSavedAddressIfNewerUpdate and 166-181 of
\* DeleteSavedAddress: the statement runs in the transaction, or fails.
SaWrite ==
  /\ saved.stage = "write"
  /\ \/ saved' = [saved EXCEPT !.stage = "finish", !.ok = FALSE,
                               !.err = ErrExec]
     \/ IF saved.u.op = "add"
          THEN saved' = [saved EXCEPT !.stage = "finish", !.ok = TRUE,
                                      !.err = NilValue,
                                      !.tx = Upserted(saved.tx, saved.u)]
          ELSE saved' = [saved EXCEPT !.stage = "finish",
                                      !.ok = saved.tx # NoRow,
                                      !.err = NilValue,
                                      !.tx = Removed(saved.tx, saved.u)]
  /\ UNCHANGED savedRest

\* lines 130-136 (155-161), the deferred function: with err nil
\* err = tx.Commit(), else tx.Rollback().  After a failed Begin tx is nil
\* and Rollback is called on it: a nil pointer dereference, the operation
\* panics instead of returning.
SaFinish ==
  /\ saved.stage = "finish"
  /\ LET s == [saved EXCEPT !.stage = "idle", !.todo = @ \ {saved.u},
                            !.failed = @ \/ saved.err \notin {NilValue}]
     IN IF saved.err = NilValue
          THEN \/ saved' = [s EXCEPT !.commits = @ + 1, !.row = saved.tx]
               \/ saved' = [s EXCEPT !.commits = @ + 1, !.err = ErrCommit,
                                     !.failed = TRUE]
          ELSE IF saved.begun
            THEN saved' = [s EXCEPT !.rollbacks = @ + 1]
            ELSE saved' = [saved EXCEPT !.stage = "panic", !.onNil = TRUE,
                                        !.rollbacks = @ + 1, !.failed = TRUE]
  /\ UNCHANGED savedRest

NextSaved == SaBegin \/ SaCheck \/ SaWrite \/ SaFinish

SpecSaved == InitSaved /\ [][NextSaved]_vars

\* ---------------------------------------------------- Database.AddGaps
MaxGaps == 2

\* MailserverRequestGap values: two ids in one chat, two ranges.
GapIDs == {"gap1", "gap2"}
GapRanges == {<<1, 2>>, <<3, 4>>}
Gap(id, range) ==
  [ID |-> id, ChatID |-> "chat", From |-> range[1], To |-> range[2]]
GapValues == {Gap(id, r) : id \in GapIDs, r \in GapRanges}

\* The lists of at most MaxGaps gaps AddGaps is called with.
GapLists == UNION {[1..n -> GapValues] : n \in 0..MaxGaps}

\* mailserver_request_gaps, keyed by id: rows stored by earlier calls.
GapTables ==
  {t \in [GapIDs -> {NoRow} \cup GapValues] :
     \A id \in GapIDs : t[id] # NoRow => t[id] = Gap(id, <<1, 2>>)}

\* Everything but the gaps table.
gapsRest == <<shared, UpstreamChainID, upstreamEnabled, local, procs, bind,
              ctx, built, db, reg, saved, backup, nOps, pc, call, loc, log,
              ret, prev>>

InitGaps ==
  /\ Unbuilt
  /\ built = NoBuilt /\ db = NoDB
  /\ reg = NoReg /\ saved = NoSaved /\ backup = NoBackup
  /\ \E t \in GapTables, l \in GapLists :
       gaps = [NoGaps EXCEPT !.stage = "entered", !.table = t, !.before = t,
                             !.tx = t, !.gaps = l]

\* lines 786-789: tx, err := d.db.Begin(); its error is returned.
AgBegin ==
  /\ gaps.stage = "entered"
  /\ \/ gaps' = [gaps EXCEPT !.stage = "loop", !.idx = 1]
     \/ gaps' = [gaps EXCEPT !.stage = "returned", !.err = ErrBegin,
                             !.ret = ErrBegin]
  /\ UNCHANGED gapsRest

\* lines 800-810: INSERT OR REPLACE of one gap in the transaction.
InsertedGap(table, gap) == [table EXCEPT ![gap.ID] = gap]

\* Mutant: the error of an insert is assigned to the function's err, the
\* one the deferred function tests.
ExecFailed_SetsErr(g, err) ==
  [g EXCEPT !.stage = "deferred", !.ret = err, !.err = err]

\* lines 800 and 811-813: _, err := tx.Exec(...) declares an err of the loop
\* body; return err returns it and leaves the function's err, still nil
\* after Begin, as it was.
ExecFailed(g, err) == [g EXCEPT !.stage = "deferred", !.ret = err]

\* lines 798-815: one turn of the loop, and return nil after the last.
AgInsert ==
  /\ gaps.stage = "loop"
  /\ IF gaps.idx > Len(gaps.gaps)
       THEN gaps' = [gaps EXCEPT !.stage = "deferred", !.ret = NilValue]
       ELSE \/ gaps' = [gaps EXCEPT !.idx = @ + 1,
                          !.tx = InsertedGap(gaps.tx, gaps.gaps[gaps.idx])]
            \/ gaps' = ExecFailed(gaps, ErrExec)
  /\ UNCHANGED gapsRest

\* lines 790-796, the deferred function: it tests the function's err;
\* err = tx.Commit() assigns that variable, not the value being returned.
AgDeferred ==
  /\ gaps.stage = "deferred"
  /\ IF gaps.err = NilValue
       THEN \/ gaps' = [gaps EXCEPT !.stage = "returned", !.commits = @ + 1,
                                    !.table = gaps.tx]
            \/ gaps' = [gaps EXCEPT !.stage = "returned", !.commits = @ + 1,
                                    !.err = ErrCommit]
       ELSE gaps' = [gaps EXCEPT !.stage = "returned", !.rollbacks = @ + 1]
  /\ UNCHANGED gapsRest

NextGaps == AgBegin \/ AgInsert \/ AgDeferred

SpecGaps == InitGaps /\ [][NextGaps]_vars

\* -------------------------------------------------- Messenger.BackupData
MaxSection == 2

\* line 16.
BackupContactsPerBatch == 20

ErrPrepare == "prepare error"
ErrDispatch == "dispatch error"
ErrSaveChat == "save chat error"
ErrSetLastBackup == "set last backup error"

\* The sections of a backup in the order of lines 129-180.
Sections == <<"contacts", "communities", "profile", "settings", "keycards">>
SectionNames == {Sections[k] : k \in 1..Len(Sections)}

\* What getLastClockWithRelatedChat returns (milliseconds), and what the
\* chat and the settings held before the run.
BackupClock == 5000
ClockBefore == 1000
LastBackupBefore == 1

\* The numbers of contacts a run meets: none, one, a full batch, a batch
\* and one more.
ContactCounts == {0, 1, BackupContactsPerBatch, BackupContactsPerBatch + 1}

\* lines 227-242, backupContacts: one message per batch of
\* BackupContactsPerBatch contacts.
ContactBatches(n) ==
  (n + BackupContactsPerBatch - 1) \div BackupContactsPerBatch

\* lines 83-98: the number of messages prepared per section.  backupProfile
\* returns one message (line 364); the keycards are one message (line 124).
Totals(b) ==
  [s \in SectionNames |->
     CASE s = "contacts" -> ContactBatches(b.contacts)
       [] s = "communities" -> b.communities
       [] s = "profile" -> 1
       [] s = "settings" -> b.settings
       [] OTHER -> 1]

\* lines 103-127, backupDetailsOnly.
backupDetailsOnly(totals) ==
  [s \in SectionNames |-> [DataNumber |-> 0, TotalNumber |-> totals[s]]]

\* Mutant: the index of the loop is the DataNumber.
DataNumber_FromZero(i) == i

\* lines 132, 143, 154, 165: DataNumber = uint32(i + 1) for loop index i
\* (a slice index, far below the width of uint32).
DataNumber(i) == i + 1

\* lines 131-133 (and the like): the i-th message of a section, i from 0.
BackupMessage(section, i, totals) ==
  [payload |-> section,
   details |-> [backupDetailsOnly(totals) EXCEPT
                  ![section].DataNumber = DataNumber(i)]]

\* lines 174-176: the keycards message, DataNumber = 1.
KeycardsMessage(totals) ==
  [payload |-> "keycards",
   details |-> [backupDetailsOnly(totals) EXCEPT !["keycards"].DataNumber = 1]]

\* The messages of the loops of lines 130-171 for the sections from k on,
\* and then the keycards message.
RECURSIVE Outgoing(_, _)
Outgoing(k, totals) ==
  IF Sections[k] = "keycards" THEN <<KeycardsMessage(totals)>>
  ELSE [i \in 1..totals[Sections[k]] |->
          BackupMessage(Sections[k], i - 1, totals)]
       \o Outgoing(k + 1, totals)

\* Everything but the backup.
backupRest == <<shared, UpstreamChainID, upstreamEnabled, local, procs, bind,
                ctx, built, db, reg, saved, gaps, nOps, pc, call, loc, log,
                ret, prev>>

InitBackup ==
  /\ Unbuilt
  /\ built = NoBuilt /\ db = NoDB
  /\ reg = NoReg /\ saved = NoSaved /\ gaps = NoGaps
  /\ \E contacts \in ContactCounts, communities \in 0..MaxSection,
        settings \in 0..MaxSection, handler \in BOOLEAN :
       backup = [NoBackup EXCEPT !.stage = "entered", !.contacts = contacts,
                                 !.communities = communities,
                                 !.settings = settings, !.handler = handler,
                                 !.LastClockValue = ClockBefore,
                                 !.savedClock = ClockBefore,
                                 !.LastBackup = LastBackupBefore]

\* return 0, err.
BackupFailed(b, step, err) ==
  [b EXCEPT !.stage = "returned", !.value = 0, !.err = err, !.failed = step]

\* lines 82-101: the messages are prepared; backupCommunities,
\* backupProfile, prepareSyncSettingsMessages or
\* prepareSyncAllKeycardsMessage may fail.
BkPrepare ==
  /\ backup.stage = "entered"
  /\ \/ backup' = [backup EXCEPT !.stage = "dispatch", !.idx = 1]
     \/ backup' = BackupFailed(backup, "prepare", ErrPrepare)
  /\ UNCHANGED backupRest

\* Mutant: the error of a dispatch is dropped and the run goes on.
DispatchFailed_GoesOn(b, err) == [b EXCEPT !.idx = @ + 1]

\* lines 134-137 (and the like): the error of encodeAndDispatchBackupMessage
\* ends the run.
DispatchFailed(b, err) == BackupFailed(b, "dispatch", err)

\* lines 130-180: the next message is encoded and dispatched, and after the
\* keycards message chat.LastClockValue = clock (line 182).
BkDispatch ==
  /\ backup.stage = "dispatch"
  /\ LET out == Outgoing(1, Totals(backup))
     IN IF backup.idx > Len(out)
          THEN backup' = [backup EXCEPT !.stage = "save",
                                        !.LastClockValue = BackupClock]
          ELSE \/ backup' = [backup EXCEPT !.idx = @ + 1,
                               !.sent = Append(@, out[backup.idx])]
               \/ backup' = DispatchFailed(backup, ErrDispatch)
  /\ UNCHANGED backupRest

\* lines 183-186: m.saveChat(chat).
BkSaveChat ==
  /\ backup.stage = "save"
  /\ \/ backup' = [backup EXCEPT !.stage = "setlast",
                                 !.savedClock = backup.LastClockValue]
     \/ backup' = BackupFailed(backup, "save", ErrSaveChat)
  /\ UNCHANGED backupRest

\* lines 188-192: m.settings.SetLastBackup(clock / 1000).
BkSetLastBackup ==
  /\ backup.stage = "setlast"
  /\ \/ backup' = [backup EXCEPT !.stage = "signal",
                                 !.LastBackup = BackupClock \div 1000]
     \/ backup' = BackupFailed(backup, "setlast", ErrSetLastBackup)
  /\ UNCHANGED backupRest

\* lines 193-197: the signal, when there is a handler, and the return.
BkSignal ==
  /\ backup.stage = "signal"
  /\ backup' = [backup EXCEPT
       !.stage = "returned", !.value = BackupClock \div 1000,
       !.signals = IF backup.handler THEN Append(@, BackupClock \div 1000)
                   ELSE @]
  /\ UNCHANGED backupRest

NextBackup ==
  BkPrepare \/ BkDispatch \/ BkSaveChat \/ BkSetLastBackup \/ BkSignal

SpecBackup == InitBackup /\ [][NextBackup]_vars



\* ================================================================ claims
Done(g) == pc[g] = "done"
DoneCall(g, op) == Done(g) /\ call[g].op = op

\* What the operation's own frames did on the network path (d = 0), as
\* opposed to a call made from inside a handler (d = 1).
NetworkEventsAt(lg, d) ==
  SelectSeq(lg, LAMBDA v : v.e \in {"find", "dial", "call", "store"} /\ v.d = d)
NetworkEvents(lg) == SelectSeq(lg, LAMBDA v : v.e \in {"find", "dial", "call", "store"})

\* C1: a CallContext for a blocked method returns ErrMethodNotFound whatever
\* handlers are registered, whatever the chain id and the upstream setting;
\* it invokes no handler, looks up, dials and calls no endpoint, stores
\* nothing in the cache and leaves the result variable alone.
C1_BlockedAlwaysRefused ==
  \A g \in Procs :
    (DoneCall(g, "CallContext") /\ routeBlocked(call[g].method)) =>
      /\ ret[g].err = ErrMethodNotFound
      /\ Events(log[g], "handler") = <<>>
      /\ NetworkEvents(log[g]) = <<>>
      /\ Events(log[g], "setresult") = <<>>
      /\ loc[g].slot = Unset

\* C1 happens: a blocked method that has a handler is called with the
\* upstream enabled.
C1_Witness ==
  \E g \in Procs :
    /\ DoneCall(g, "CallContext") /\ routeBlocked(call[g].method)
    /\ handlers[call[g].method] # NoHandler
    /\ upstreamEnabled

\* What C2 says of one finished CallContext: its handler ran exactly once
\* with the call's chain id, and the call itself stayed off the network path.
ServedByHandler(g) ==
  /\ Events(log[g], "handler") =
       <<Event("handler", 0, [handler |-> call[g].registered,
                              chainID |-> call[g].chainID])>>
  /\ NetworkEventsAt(log[g], 0) = <<>>

\* C2 as stated: every CallContext for a method with a registered handler is
\* served by that handler.
C2_HandlerAlwaysServes ==
  \A g \in Procs :
    (DoneCall(g, "CallContext") /\ call[g].registered # NoHandler) =>
      ServedByHandler(g)

\* C2 amended: every CallContext for a method that is not blocked and has a
\* registered handler invokes that handler exactly once with the call's chain
\* id and does no configuration lookup, dial, transport call or cache store
\* of its own.
C2_HandlerServesUnblocked ==
  \A g \in Procs :
    (/\ DoneCall(g, "CallContext")
     /\ call[g].registered # NoHandler
     /\ ~routeBlocked(call[g].method)) =>
      ServedByHandler(g)

\* C2 happens: a remote method with a handler is called for a chain id that
\* has no configuration and is not the upstream's.
C2_Witness ==
  \E g \in Procs :
    /\ DoneCall(g, "CallContext")
    /\ call[g].registered # NoHandler
    /\ routeRemote(upstreamEnabled, call[g].method)
    /\ networks[call[g].chainID] = Nil
    /\ call[g].chainID # UpstreamChainID

C4_CachedEntryNeverReplaced ==
  [][\A c \in ChainIDs :
       rpcClients[c] # NoEntry => rpcClients'[c] = rpcClients[c]]_vars

Dials(lg) == Len(Events(lg, "dial"))

\* The preceding and the current operation of the lone goroutine are both
\* EthClient for one chain id, and the current one has returned.
TwoLookups ==
  /\ DoneCall("g1", "EthClient")
  /\ prev.call.op = "EthClient"
  /\ prev.changed = {}
  /\ prev.call.chainID = call["g1"].chainID

\* C5 as stated: two lookups in sequence for one chain id dial exactly once
\* in total and return the same record.
C5_OneDialForTwoLookups ==
  TwoLookups =>
    /\ Dials(prev.log) + Dials(log["g1"]) = 1
    /\ ret["g1"].client = prev.ret.client

\* C5 amended: when the first of two lookups in sequence for one chain id
\* succeeds, the second succeeds too, dials nothing and returns the same
\* record; the first dialed once per URL the chain's configuration declares
\* if it stored a record, and not at all if it returned the upstream record.
C5_SecondLookupIsCached ==
  (TwoLookups /\ prev.ret.err = NilValue) =>
    /\ ret["g1"].err = NilValue
    /\ Dials(log["g1"]) = 0
    /\ ret["g1"].client = prev.ret.client
    /\ Dials(prev.log) =
         IF Events(prev.log, "store") = <<>> THEN 0
         ELSE IF prev.ret.client.fallback = Nil THEN 1 ELSE 2

\* C5 happens: the second lookup of a chain with a fallback URL returned the
\* record the first one stored.
C5_Witness ==
  /\ TwoLookups
  /\ Events(prev.log, "store") # <<>>
  /\ prev.ret.client.fallback # Nil
  /\ ret["g1"].client = rpcClients[call["g1"].chainID]

\* C6: no goroutine is about to write the rpcClients map while another is
\* about to read or write it (nothing orders the two accesses).
C6_MapAccessExclusive ==
  \A g \in Procs : \A o \in Procs \ {g} : ~(MapWriteBy(g) /\ MapAccessBy(o))

\* The records stored for chain id c, in the order of the stores.
StoresOf(c) == SelectSeq(stores, LAMBDA r : r.ChainID = c)
Handles(r) == {r.main} \cup (IF r.fallback = Nil THEN {} ELSE {r.fallback})

\* C7: whatever lookups raced for a chain id, its cache entry is the record
\* of the last store made for it, and that record shares no transport handle
\* with any record stored for the id before.
C7_LastStoreWins ==
  \A c \in ChainIDs :
    LET ss == StoresOf(c)
    IN ss # <<>> =>
         /\ rpcClients[c] = ss[Len(ss)]
         /\ \A i \in 1..(Len(ss) - 1) :
              Handles(ss[i]) \cap Handles(ss[Len(ss)]) = {}

\* C7 happens: two first-use lookups of one chain id both stored a record
\* and both have returned.
C7_Witness ==
  \E c \in ChainIDs :
    /\ Len(StoresOf(c)) = 2
    /\ ~crashed
    /\ \A g \in Procs : pc[g] \in {"idle", "done"}

\* The transport call a call operation made itself.
RemoteCalls(lg) == EventsAt(lg, "call", 0)

\* C8: an UpdateUpstreamURL whose dial fails returns the dial's error and
\* leaves c.upstream and c.upstreamURL as they were; a remote call made next
\* that is served by the upstream record is served by that same old record.
C8_FailedUpdateKeepsUpstream ==
  /\ (DoneCall("g1", "UpdateUpstreamURL") /\ ret["g1"].err # NilValue) =>
       /\ ret["g1"].err = ErrDialUpdate
       /\ Dials(log["g1"]) = 1
       /\ upstream = loc["g1"].old.upstream
       /\ upstreamURL = loc["g1"].old.url
  /\ (/\ Done("g1")
      /\ call["g1"].op \in {"CallContext", "CallContextIgnoringLocalHandlers"}
      /\ prev.call.op = "UpdateUpstreamURL"
      /\ prev.ret.err # NilValue
      /\ call["g1"].chainID = UpstreamChainID
      /\ RemoteCalls(log["g1"]) # <<>>
      /\ Events(log["g1"], "find") # <<>>
      /\ Events(log["g1"], "store") = <<>>) =>
       /\ RemoteCalls(log["g1"])[1].x.target = prev.old.upstream
       /\ upstream = prev.old.upstream
       /\ upstreamURL = prev.old.url

\* C8 happens: the dial of an update failed and the next operation, a remote
\* call for the upstream's chain id, was sent over the upstream record.
C8_Witness ==
  /\ DoneCall("g1", "CallContext")
  /\ prev.call.op = "UpdateUpstreamURL"
  /\ prev.ret.err = ErrDialUpdate
  /\ RemoteCalls(log["g1"]) # <<>>
  /\ RemoteCalls(log["g1"])[1].x.target = upstream

\* c.upstream was dialed from c.upstreamURL.
UpstreamPairConsistent == upstream # Nil => upstream.main.url = upstreamURL

C10_UpstreamReadsLocked ==
  \A g \in Procs : \A o \in Procs \ {g} :
    ~(pc[g] = "uu_setupstream" /\ pc[o] = "gc_upstream")


\* C11: on a client built without an upstream, the step that is a whole
\* UpdateUpstreamURL returns nil, dials nothing and changes neither
\* c.upstream, c.upstreamURL, the rpcClients map nor the router's setting.
C11_UpdateWithoutUpstreamIsNoOp ==
  [][\A g \in Procs :
       (/\ ~upstreamEnabled
        /\ call[g].op # "UpdateUpstreamURL"
        /\ call'[g].op = "UpdateUpstreamURL") =>
         /\ pc'[g] = "done"
         /\ ret'[g].err = NilValue
         /\ log'[g] = <<>>
         /\ upstream' = upstream /\ upstream = Nil
         /\ upstreamURL' = upstreamURL
         /\ rpcClients' = rpcClients
         /\ upstreamEnabled' = upstreamEnabled]_vars

\* C11 happens: UpdateUpstreamURL has returned on a client built without an
\* upstream whose cache holds a record.
C11_Witness ==
  \E g \in Procs :
    /\ DoneCall(g, "UpdateUpstreamURL")
    /\ ~upstreamEnabled
    /\ \E c \in ChainIDs : rpcClients[c] # NoEntry

\* The lone goroutine's EthClient has returned for a chain id that has no
\* configuration and is not c.UpstreamChainID.
UnconfiguredLookup ==
  /\ DoneCall("g1", "EthClient")
  /\ networks[call["g1"].chainID] = Nil
  /\ call["g1"].chainID # UpstreamChainID

\* The lone goroutine's EthClient has returned; its preceding operation was
\* an EthClient for the same chain id that failed with network-not-found, and
\* the chain id has a configuration now.
LookupAfterNotFound ==
  /\ DoneCall("g1", "EthClient")
  /\ prev.call.op = "EthClient"
  /\ prev.call.chainID = call["g1"].chainID
  /\ prev.ret.err = ErrNetworkNotFound
  /\ networks[call["g1"].chainID] # Nil

\* The failure was not remembered: the lookup dialed again, and it stored
\* the record it returns when its dials succeeded, else it returned the dial
\* error and stored nothing.
DialedAgain ==
  /\ Dials(log["g1"]) >= 1
  /\ IF ret["g1"].err = NilValue
       THEN /\ Len(Events(log["g1"], "store")) = 1
            /\ ret["g1"].client # Nil
            /\ rpcClients[call["g1"].chainID] = ret["g1"].client
       ELSE /\ ret["g1"].err = ErrDial
            /\ Events(log["g1"], "store") = <<>>
            /\ rpcClients[call["g1"].chainID] = NoEntry

\* C12 as stated: every lookup for a chain id without configuration that is
\* not the upstream's fails with network-not-found, dials and stores nothing;
\* and a lookup made after such a failure, once the chain id has a
\* configuration, dials, and with its dials successful caches and succeeds.
C12_UnconfiguredLookupFails ==
  /\ UnconfiguredLookup =>
       /\ ret["g1"].err = ErrNetworkNotFound
       /\ Dials(log["g1"]) = 0
       /\ Events(log["g1"], "store") = <<>>
  /\ LookupAfterNotFound => DialedAgain

\* C12 amended: a lookup that misses the cache for a chain id without
\* configuration that is not the upstream's fails with network-not-found,
\* returns no record, dials and stores nothing; a lookup made after such a
\* failure, once the chain id has a configuration, dials, and with its dials
\* successful caches and succeeds.
C12_UncachedUnconfiguredLookupFails ==
  /\ (UnconfiguredLookup /\ Events(log["g1"], "find") # <<>>) =>
       /\ ret["g1"].err = ErrNetworkNotFound
       /\ ret["g1"].client = Nil
       /\ Dials(log["g1"]) = 0
       /\ Events(log["g1"], "store") = <<>>
       /\ rpcClients[call["g1"].chainID] = NoEntry
  /\ LookupAfterNotFound => DialedAgain

\* C12 happens: a lookup failed with network-not-found, the chain id then
\* got a configuration, and the next lookup stored and returned a record.
C12_Witness ==
  /\ LookupAfterNotFound
  /\ prev.changed = {call["g1"].chainID}
  /\ ret["g1"].err = NilValue
  /\ rpcClients[call["g1"].chainID] = ret["g1"].client

\* The lone goroutine's EthClient has returned for the chain id that is
\* c.UpstreamChainID and has no configuration.
UpstreamLookup ==
  /\ DoneCall("g1", "EthClient")
  /\ networks[call["g1"].chainID] = Nil
  /\ call["g1"].chainID = UpstreamChainID

\* The preceding operation was an UpdateUpstreamURL that assigned c.upstream.
AfterUpdate ==
  /\ prev.call.op = "UpdateUpstreamURL"
  /\ prev.ret.err = NilValue
  /\ Events(prev.log, "setupstream") # <<>>

\* The lookup returned c.upstream, dialed nothing and stored nothing; after
\* an update it returned the record the update assigned.
ReturnedUpstream ==
  /\ ret["g1"].err = NilValue
  /\ ret["g1"].client = upstream
  /\ Dials(log["g1"]) = 0
  /\ Events(log["g1"], "store") = <<>>
  /\ AfterUpdate =>
       /\ ret["g1"].client = Events(prev.log, "setupstream")[1].x
       /\ ret["g1"].client.main.url = prev.call.url

\* C13 as stated: every lookup for the upstream's chain id, when that id has
\* no configuration, returns the current upstream record without a dial and
\* without a store, and so the record of the update that preceded it.
C13_UpstreamIsDefaultRoute == UpstreamLookup => ReturnedUpstream

\* C13 amended: a lookup that misses the cache for the upstream's chain id,
\* when that id has no configuration, returns the current upstream record
\* without a dial and without a store, and so the record of the update that
\* preceded it; the chain id stays out of the cache.
C13_UncachedUpstreamIsDefaultRoute ==
  (UpstreamLookup /\ Events(log["g1"], "find") # <<>>) =>
    /\ ReturnedUpstream
    /\ rpcClients[call["g1"].chainID] = NoEntry

\* C13 happens: the lookup that followed a successful UpdateUpstreamURL
\* returned the record dialed from the new URL.
C13_Witness ==
  /\ UpstreamLookup
  /\ AfterUpdate
  /\ ret["g1"].client # Nil
  /\ ret["g1"].client.main.url = UpdateURL("g1")

\* The dials of a log that failed.
FailedDials(lg) == SelectSeq(lg, LAMBDA v : v.e = "dial" /\ ~v.x.ok)

\* C14: a lookup in which a dial of the primary or of the fallback URL
\* failed returns the dial error and no record, made no dial after the
\* failed one and stored nothing, so the chain id is not in the cache; the
\* next lookup for the chain id dials again.
C14_FailedDialCachesNothing ==
  /\ (DoneCall("g1", "EthClient") /\ FailedDials(log["g1"]) # <<>>) =>
       /\ ret["g1"].err = ErrDial
       /\ ret["g1"].client = Nil
       /\ Len(FailedDials(log["g1"])) = 1
       /\ ~Events(log["g1"], "dial")[Dials(log["g1"])].x.ok
       /\ Events(log["g1"], "store") = <<>>
       /\ rpcClients[call["g1"].chainID] = NoEntry
  /\ (/\ DoneCall("g1", "EthClient")
      /\ prev.call.op = "EthClient"
      /\ prev.call.chainID = call["g1"].chainID
      /\ FailedDials(prev.log) # <<>>
      /\ prev.changed = {}) =>
       /\ Dials(log["g1"]) >= 1
       /\ Events(log["g1"], "dial")[1].x.url = Events(prev.log, "dial")[1].x.url

\* C14 happens: the dial of the fallback URL failed in one lookup, and the
\* next lookup for the chain id dialed both URLs and cached the record.
C14_Witness ==
  /\ DoneCall("g1", "EthClient")
  /\ prev.call.op = "EthClient"
  /\ prev.call.chainID = call["g1"].chainID
  /\ Dials(prev.log) = 2
  /\ FailedDials(prev.log) # <<>>
  /\ Dials(log["g1"]) = 2
  /\ rpcClients[call["g1"].chainID] = ret["g1"].client
  /\ ret["g1"].client # Nil

\* A call has returned that, on a client built without an upstream, was for
\* a method that is not blocked and that no handler served.
LocalDefaultCall(g) ==
  /\ Done(g)
  /\ call[g].op \in {"CallContext", "CallContextIgnoringLocalHandlers"}
  /\ ~upstreamEnabled
  /\ ~routeBlocked(call[g].method)
  /\ call[g].op = "CallContext" => call[g].registered = NoHandler

\* C15: on a client built without an upstream, a call for a method that is
\* not blocked and that no handler serves goes to the local client and
\* nowhere else; without a local client it returns the missing-local error
\* and has looked up, dialed, called and stored nothing and written no result.
C15_LocalDefaultNeedsLocal ==
  \A g \in Procs :
    LocalDefaultCall(g) =>
      /\ Events(log[g], "handler") = <<>>
      /\ Events(log[g], "find") = <<>>
      /\ Events(log[g], "dial") = <<>>
      /\ Events(log[g], "store") = <<>>
      /\ IF local = Nil
           THEN /\ ret[g].err = ErrMissingLocal
                /\ Events(log[g], "call") = <<>>
                /\ Events(log[g], "setresult") = <<>>
                /\ loc[g].slot = Unset
           ELSE /\ Len(Events(log[g], "call")) = 1
                /\ Events(log[g], "call")[1].x.target = local
                /\ ret[g].err \in {NilValue, ErrTransport}

\* C15 happens: without an upstream and without a local client, CallContext
\* for a method of the remote list returned while the cache held a record.
C15_Witness ==
  \E g \in Procs :
    /\ LocalDefaultCall(g)
    /\ call[g].op = "CallContext"
    /\ call[g].method = RemoteMethod
    /\ local = Nil
    /\ \E c \in ChainIDs : rpcClients[c] # NoEntry

\* CallContext has returned after its handler returned an error.
HandlerFailed(g) ==
  /\ DoneCall(g, "CallContext")
  /\ Events(log[g], "handler") # <<>>
  /\ loc[g].herr # NilValue

\* C16: when the handler of a CallContext returned an error, the call
\* returns that very error, binds nothing, and the variable result points to
\* holds what it held before the call.
C16_HandlerErrorUnchanged ==
  \A g \in Procs :
    HandlerFailed(g) =>
      /\ ret[g].err = loc[g].herr
      /\ Events(log[g], "setresult") = <<>>
      /\ loc[g].slot = Unset

\* C16 happens: a handler failed on its own account, and CallContext was
\* given a pointer to a variable.
C16_Witness ==
  \E g \in Procs :
    /\ HandlerFailed(g)
    /\ loc[g].herr = ErrHandler
    /\ call[g].result = Pointer("string")

\* callMethod has returned.
Bindings == bind.stage = "returned"

\* C17: callMethod with a nil result invokes the handler once, binds
\* nothing whatever the type of the response, and returns the handler's
\* error, nil when the handler succeeded.
C17_NilResultNeverBinds ==
  (Bindings /\ bind.result = NilResult) =>
    /\ bind.invoked = 1
    /\ bind.out.err = bind.herr
    /\ ~bind.out.written
    /\ bind.out.value = Unset

\* C17 happens: with a nil result the handler returned a value that has no
\* JSON encoding and fits no variable, and callMethod returned nil.
C17_Witness ==
  /\ Bindings
  /\ bind.result = NilResult
  /\ bind.response = GoValue("chan", <<>>)
  /\ bind.out.err = NilValue

\* callMethod has gone on to bind a response into a variable.
BoundInto(elem) ==
  /\ Bindings
  /\ bind.herr = NilValue
  /\ bind.result = Pointer(elem)

\* The JSON text of the responses that have one, written out.
JSONText(response) ==
  CASE response = NilInterface -> <<"n", "u", "l", "l">>
    [] response = GoValue("int", <<"1">>) -> <<"1">>
    [] response = GoValue("string", <<"a", "\"">>) -> <<"\"", "a", "\\\"", "\"">>
    [] response = StructX1 -> <<"{", "\"", "x", "\"", ":", "1", "}">>
    [] response = GoValue("bytes", <<"a", "b", "c">>) ->
         <<"\"", "Y", "W", "J", "j", "\"">>
    [] response = GoValue("raw", <<"{", "\"", "x", "\"", ":", " ", "1", "}">>) ->
         <<"{", "\"", "x", "\"", ":", "1", "}">>
    [] OTHER -> <<>>
HasJSONText(response) == JSONText(response) # <<>>

\* C18 as stated: a response bound into a variable of the response's own
\* type leaves the variable equal to the response, and a response that has
\* a JSON encoding bound into a []byte or json.RawMessage variable leaves
\* the variable holding that encoding.
C18_BindingRoundTrip ==
  \A elem \in ElemTypes :
    BoundInto(elem) =>
      /\ elem = bind.response.type =>
           /\ bind.out.err = NilValue
           /\ bind.out.written
           /\ bind.out.value = bind.response
      /\ (elem \in {"bytes", "raw"} /\ HasJSONText(bind.response)) =>
           /\ bind.out.err = NilValue
           /\ bind.out.written
           /\ bind.out.value = GoValue(elem, JSONText(bind.response))

\* C18 amended: a response bound into a variable of the response's own
\* type, other than []byte and json.RawMessage, leaves the variable equal to
\* the response; a response bound into a []byte or json.RawMessage variable
\* leaves the variable holding the JSON encoding of the response, whatever
\* the type of the response, and when it has no JSON encoding the binding
\* returns the encoder's error and writes nothing.
C18_BindingRoundTripOrEncoding ==
  \A elem \in ElemTypes :
    BoundInto(elem) =>
      /\ (elem = bind.response.type /\ elem \notin {"bytes", "raw"}) =>
           /\ bind.out.err = NilValue
           /\ bind.out.written
           /\ bind.out.value = bind.response
      /\ elem \in {"bytes", "raw"} =>
           IF HasJSONText(bind.response)
             THEN /\ bind.out.err = NilValue
                  /\ bind.out.written
                  /\ bind.out.value = GoValue(elem, JSONText(bind.response))
             ELSE /\ bind.out.err = ErrMarshal
                  /\ ~bind.out.written

\* C18 happens: the structured value {x: 1} was bound into a
\* json.RawMessage variable, which holds {"x":1}.
C18_Witness ==
  /\ BoundInto("raw")
  /\ bind.response = StructX1
  /\ bind.out.value.v = <<"{", "\"", "x", "\"", ":", "1", "}">>

\* callMethod has gone on to bind a response, result being not nil.
BoundSomething ==
  /\ Bindings
  /\ bind.herr = NilValue
  /\ bind.result # NilResult

\* C19: binding with a result that is not nil returns: with nil, and then
\* the variable was written, or with an error, and then nothing was written;
\* no panic reaches the caller.  A result that is no pointer or a nil
\* pointer, and a response that cannot be assigned to the variable, give the
\* invalid-result-type error.
C19_BindingNeverPanics ==
  BoundSomething =>
    /\ bind.out.err # Panic
    /\ bind.out.err \in {NilValue, ErrInvalidResultType, ErrMarshal}
    /\ bind.out.written <=> bind.out.err = NilValue
    /\ ~bind.out.written => bind.out.value = Unset \/ bind.out.err = ErrMarshal
    /\ bind.result.kind \in {"value", "nilpointer"} =>
         bind.out.err = ErrInvalidResultType
    /\ (/\ bind.result.kind = "pointer"
        /\ bind.result.elem \notin {"bytes", "raw"}
        /\ ~AssignableTo(bind.response.type, bind.result.elem)) =>
         bind.out.err = ErrInvalidResultType

\* C19 happens: a nil pointer was passed as result and the binding returned
\* the invalid-result-type error.
C19_Witness ==
  /\ BoundSomething
  /\ bind.result = NilPointer("int")
  /\ bind.response = GoValue("int", <<"1">>)
  /\ bind.out.err = ErrInvalidResultType

\* Goroutine g runs RegisterHandler in this step.
Registers(g) ==
  /\ pc[g] = "idle"
  /\ pc'[g] = "done"
  /\ call'[g].op = "RegisterHandler"

\* Goroutine g enters CallContext in this step with a method that is not
\* blocked, and so looks its handler up.
LooksUp(g) ==
  /\ pc[g] = "idle"
  /\ pc'[g] # "idle"
  /\ call'[g].op = "CallContext"
  /\ ~routeBlocked(call'[g].method)

\* C20: a RegisterHandler step leaves the handler passed under its name and
\* the handlers of all other names as they were; no other step changes the
\* registry, so the handler a lookup finds is that of the most recent
\* RegisterHandler for the name; a name that has a handler keeps having one.
C20_LastRegisteredHandlerFound ==
  [][/\ \A g \in Procs : Registers(g) =>
          /\ handlers'[call'[g].method] = call'[g].handler
          /\ \A m \in Methods \ {call'[g].method} : handlers'[m] = handlers[m]
     /\ (\A g \in Procs : ~Registers(g)) => handlers' = handlers
     /\ \A g \in Procs : (LooksUp(g) /\ handlers[call'[g].method] # NoHandler) =>
          /\ pc'[g] = "cm_invoke"
          /\ loc'[g].handler = handlers[call'[g].method]
     /\ \A g \in Procs : (LooksUp(g) /\ handlers[call'[g].method] = NoHandler) =>
          pc'[g] # "cm_invoke"
     /\ \A m \in Methods : handlers[m] # NoHandler => handlers'[m] # NoHandler
    ]_vars

\* C20 happens: the goroutine registered a handler under a name and then
\* another one under the same name, and the registry holds the second.
C20_Witness ==
  \E g \in Procs :
    /\ pc[g] = "done"
    /\ prev.call.op = "RegisterHandler"
    /\ call[g].op = "RegisterHandler"
    /\ call[g].method = prev.call.method
    /\ prev.call.handler = "value" /\ call[g].handler = "fail"
    /\ handlers[call[g].method] = "fail"
    /\ \A m \in Methods \ {call[g].method} : handlers[m] = NoHandler

\* What C21 says of a CallContext of g, running or returned, whose lookup
\* found call[g].registered: it invokes no handler but that one, at most
\* once and once when it has returned, and then stays off the network path
\* itself; with no handler found it invokes none.
ServedAsLookedUp(g) ==
  LET invoked == Events(log[g], "handler")
  IN /\ Len(invoked) <= 1
     /\ \A i \in 1..Len(invoked) : invoked[i].x.handler = call[g].registered
     /\ call[g].registered # NoHandler =>
          /\ NetworkEventsAt(log[g], 0) = <<>>
          /\ Done(g) => Len(invoked) = 1
     /\ call[g].registered = NoHandler =>
          /\ invoked = <<>>
          /\ pc[g] \notin {"cm_invoke", "cm_result"}

\* A registration is in the registry when RegisterHandler returns, and the
\* lookup of a CallContext takes what the registry holds at that moment.
RegistrationVisible ==
  /\ \A g \in Procs : Registers(g) =>
       handlers'[call'[g].method] = call'[g].handler
  /\ \A g \in Procs : LooksUp(g) =>
       /\ call'[g].registered = handlers[call'[g].method]
       /\ pc'[g] = "cm_invoke" => loc'[g].handler = handlers[call'[g].method]
  /\ \A g \in Procs : (call[g].op = "CallContext" /\ pc'[g] # "idle") =>
       call'[g].registered = call[g].registered

\* C21 as stated: every CallContext, of a blocked method too, is served by
\* the handler its method had when the call began, or by the network path
\* when it had none.
C21_RegistrationServesLaterCalls ==
  /\ [][RegistrationVisible]_vars
  /\ [](\A g \in Procs : call[g].op = "CallContext" => ServedAsLookedUp(g))

\* C21 amended: under any interleaving, a CallContext for a method that is
\* not blocked is served by the handler the registry held at the call's
\* lookup, which is that of the last RegisterHandler for the method that
\* returned before, and by nothing else; with no handler at the lookup it
\* takes the network path and invokes no handler, also when one is
\* registered while the call runs.
C21_RegistrationServesLaterUnblockedCalls ==
  /\ [][RegistrationVisible]_vars
  /\ [](\A g \in Procs :
         (call[g].op = "CallContext" /\ ~routeBlocked(call[g].method)) =>
           ServedAsLookedUp(g))

\* C21 happens: a CallContext that found no handler went to an endpoint
\* and returned, and a handler was registered for its method meanwhile.
C21_Witness ==
  \E g \in Procs :
    /\ DoneCall(g, "CallContext")
    /\ call[g].registered = NoHandler
    /\ handlers[call[g].method] # NoHandler
    /\ Events(log[g], "call") # <<>>
    /\ Events(log[g], "handler") = <<>>

\* What the log of g holds since the context was cancelled.
SinceCancel(g) == SubSeq(log[g], ctx.len + 1, Len(log[g]))

\* The context of g's call was cancelled while the call was about to dial
\* the endpoints of an uncached chain id that has a configuration, or to
\* make its transport call.
CancelledWaiting(g) ==
  /\ Cancelled(g)
  /\ \/ ctx.at = "gc_find" /\ networks[call[g].chainID] # Nil
     \/ ctx.at \in {"tr_remote", "tr_local"}

\* C22: a call whose context is cancelled while it waits for a dial or for
\* the transport gives the wait up: it completes no dial, stores no record
\* and returns the error of the context.
C22_CancelAbortsWait ==
  \A g \in Procs :
    (CancelledWaiting(g) /\ Done(g)) =>
      /\ ret[g].err = ErrCanceled
      /\ Events(SinceCancel(g), "dial") = <<>>
      /\ Events(SinceCancel(g), "store") = <<>>

\* The running or returned operation of g counted its method once, before
\* anything else it did.
CountedOnceFirst(g) ==
  /\ Events(log[g], "count") = <<Event("count", 0, call[g].method)>>
  /\ log[g][1].e = "count"

\* C23 as stated: CallContext and CallContextIgnoringLocalHandlers called
\* directly both count the call once, before any routing.
C23_EveryDispatchCounted ==
  \A g \in Procs :
    call[g].op \in {"CallContext", "CallContextIgnoringLocalHandlers"} =>
      CountedOnceFirst(g)

\* C23 amended: Call and CallContext count the call exactly once, before
\* any routing decision, also when the method is blocked or the call fails
\* later; CallContextIgnoringLocalHandlers called directly counts nothing.
C23_CallContextCounted ==
  \A g \in Procs :
    /\ call[g].op = "CallContext" => CountedOnceFirst(g)
    /\ call[g].op = "CallContextIgnoringLocalHandlers" =>
         Events(log[g], "count") = <<>>

\* C23 happens: a CallContext for a blocked method was counted and refused.
C23_Witness ==
  \E g \in Procs :
    /\ DoneCall(g, "CallContext")
    /\ routeBlocked(call[g].method)
    /\ ret[g].err = ErrMethodNotFound
    /\ log[g] = <<Event("count", 0, call[g].method)>>

\* NewClient has returned: a failed dial of the upstream URL is the error
\* returned, and a Client is returned exactly when no error is.
NewClientReturnsDialError ==
  built.stage = "returned" =>
    /\ FailedDials(built.dials) # <<>> => built.err = ErrDial
    /\ built.ok <=> built.err = NilValue

\* The last configuration lookup of a log found no network for a chain id
\* that is not the upstream's.
LookupFailed(lg) ==
  LET f == Events(lg, "find")
  IN /\ f # <<>>
     /\ networks[f[Len(f)].x] = Nil
     /\ f[Len(f)].x # UpstreamChainID

\* An operation of the client has returned: a failed lookup or dial, a
\* failed handler, a failed transport call and a failed binding each are
\* the error it returns.
OperationReturnsError(g) ==
  Done(g) =>
    /\ LookupFailed(log[g]) => ret[g].err = ErrNetworkNotFound
    /\ FailedDials(log[g]) # <<>> => ret[g].err \in {ErrDial, ErrDialUpdate}
    /\ HandlerFailed(g) => ret[g].err = loc[g].herr
    /\ Events(log[g], "call") # <<>> =>
         (ret[g].err = NilValue <=> loc[g].slot = TransportReply)
    /\ \A i \in 1..Len(Events(log[g], "setresult")) :
         ret[g].err = Events(log[g], "setresult")[i].x.err

\* callMethod returns the error of the binding, for every result and
\* response.
BindingErrorReturned ==
  \A result \in ResultArgs \ {NilResult}, response \in Responses :
    callMethod(result, response, NilValue).err =
      setResultFromRPCResponse(result, response).err

\* C24 as stated: every error of a collaborator, that of the network
\* manager's initialisation in NewClient too, is returned to the caller.
C24_NoErrorSwallowed ==
  /\ NewClientReturnsDialError
  /\ built.stage = "returned" =>
       (built.initErr # NilValue => built.err # NilValue)
  /\ \A g \in Procs : OperationReturnsError(g)
  /\ BindingErrorReturned

\* C24 amended: NewClient returns the error of the upstream dial and no
\* other, the error of networkManager.Init being logged only; the
\* operations of the client return the errors of the configuration lookup,
\* the dials, the handler, the transport call and the result binding.
C24_OnlyInitErrorSwallowed ==
  /\ NewClientReturnsDialError
  /\ built.stage = "returned" =>
       /\ built.err # NilValue => FailedDials(built.dials) # <<>>
       /\ built.initErr # NilValue => built.logged = <<built.initErr>>
  /\ \A g \in Procs : OperationReturnsError(g)
  /\ BindingErrorReturned

\* C24 happens: on a client NewClient returned, a handler called
\* CallContextIgnoringLocalHandlers, the transport call failed, and
\* CallContext returned that error.
C24_Witness ==
  \E g \in Procs :
    /\ built = NoBuilt
    /\ DoneCall(g, "CallContext")
    /\ call[g].registered = "bypass"
    /\ EventsAt(log[g], "call", 1) # <<>>
    /\ loc[g].herr = ErrTransport
    /\ ret[g].err = ErrTransport

\* C25: on a client NewClient returned, a call that took the remote path
\* and got no error from the cache lookup calls an endpoint record that is
\* not nil, whatever the configuration and the updates of the upstream URL
\* before it; no call panics on a nil record.
C25_RemoteEndpointNeverNil ==
  /\ ~crashed
  /\ \A g \in Procs : pc[g] = "tr_remote" => loc[g].client # Nil

\* C25 happens: after an UpdateUpstreamURL that succeeded, a call for a
\* chain id without configuration is about to call the upstream record.
C25_Witness ==
  \E g \in Procs :
    /\ pc[g] = "tr_remote"
    /\ prev.call.op = "UpdateUpstreamURL"
    /\ prev.ret.err = NilValue
    /\ networks[call[g].chainID] = Nil
    /\ loc[g].client = upstream
    /\ upstream.main.url = prev.call.url

\* SetTopics has returned nil.
TopicsSet == db.stage = "returned" /\ db.err = NilValue

\* The topics that have a row.
Stored(table) == {k \in DOMAIN table : table[k] # NoRow}

\* The listed topics that had a row keep it, those that had none have a row
\* with last_request a day before the call.
ListedRows ==
  \A k \in Listed(db.filters) :
    /\ db.topics[k] # NoRow
    /\ db.before[k] # NoRow => db.topics[k] = db.before[k]
    /\ db.before[k] = NoRow => db.topics[k].last_request = DayAgo(Now)

BuiltFromConfig(r, c) ==
  LET n == Network(c)
  IN /\ r.ChainID = c
     /\ r.main # Nil
     /\ r.main.url = n.RPCURL
     /\ r.fallback # Nil <=> Len(n.FallbackURL) > 0
     /\ r.fallback # Nil => r.fallback.url = n.FallbackURL

\* The store at place i of a log comes right after the successful dials of
\* the URLs of the stored record: the primary URL, then the fallback URL if
\* the record has a fallback handle.
DialedBefore(lg, i) ==
  LET r == lg[i].x
      k == IF r.fallback = Nil THEN 1 ELSE 2
  IN /\ i > k
     /\ lg[i - k] = Event("dial", lg[i].d, Dial(r.main.url, TRUE))
     /\ r.fallback # Nil =>
          lg[i - 1] = Event("dial", lg[i].d, Dial(r.fallback.url, TRUE))

\* C27: every record in the cache, and every record ever stored in it, was
\* built from the configuration of its chain id with all its dials
\* successful; a chain id with a fallback URL has no primary-only record.
C27_CachedRecordsAreComplete ==
  /\ \A c \in ChainIDs :
       rpcClients[c] # NoEntry => BuiltFromConfig(rpcClients[c], c)
  /\ \A i \in 1..Len(stores) : BuiltFromConfig(stores[i], stores[i].ChainID)
  /\ \A g \in Procs : \A i \in 1..Len(log[g]) :
       log[g][i].e = "store" => DialedBefore(log[g], i)

\* C27 happens: the cache holds a record with a fallback handle for the
\* chain id that declares a fallback URL and a primary-only record for the
\* one that declares none.
C27_Witness ==
  /\ rpcClients[0] # NoEntry
  /\ rpcClients[1] # NoEntry
  /\ rpcClients[0].fallback = Nil
  /\ rpcClients[1].fallback # Nil

\* Goroutine g makes the map lookup of line 97 in this step, for a chain
\* id that is in the cache.
LooksUpCached(g) ==
  /\ pc[g] = "gc_read"
  /\ rpcClients[CurChain(g)] # NoEntry
  /\ pc'[g] # pc[g] \/ loc'[g] # loc[g]

\* getClientUsingCache gives the record r to its caller in this step: to
\* EthClient, to the loop of EthClients, or to the call that goes on to the
\* transport.
HandsOver(g, r) ==
  CASE call[g].op = "EthClient" ->
         /\ pc'[g] = "done"
         /\ ret'[g].client = r /\ ret'[g].err = NilValue
    [] call[g].op = "EthClients" ->
         IF loc[g].idx = Len(call[g].chainIDs)
           THEN /\ pc'[g] = "done"
                /\ ret'[g].clients = Append(loc[g].clients, r)
                /\ ret'[g].err = NilValue
           ELSE /\ pc'[g] = "gc_read"
                /\ loc'[g].clients = Append(loc[g].clients, r)
    [] OTHER ->
         /\ pc'[g] = "tr_remote"
         /\ loc'[g].client = r

\* C28: the lookup of a chain id that is in the cache hands over the cached
\* record at once: it asks the network manager for nothing, dials nothing
\* and stores nothing, whatever the configuration of the chain id and the
\* upstream record are by then.
C28_CachedLookupIsImmediate ==
  [][\A g \in Procs :
       LooksUpCached(g) =>
         /\ HandsOver(g, rpcClients[CurChain(g)])
         /\ log'[g] = log[g]
         /\ rpcClients' = rpcClients
         /\ stores' = stores]_vars

\* C28 happens: EthClients looked one chain id up twice; the first lookup
\* dialed and stored the record, then the configuration of the chain id was
\* removed, and the second lookup returned the cached record.
C28_Witness ==
  \E g \in Procs :
    /\ DoneCall(g, "EthClients")
    /\ call[g].chainIDs = <<1, 1>>
    /\ networks[1] = Nil
    /\ Len(Events(log[g], "find")) = 1
    /\ Len(Events(log[g], "store")) = 1
    /\ ret[g].clients = <<rpcClients[1], rpcClients[1]>>

\* A record made for the upstream: by NewClient or by UpdateUpstreamURL.
UpstreamRecord(r) ==
  /\ r # Nil
  /\ r.main.url \in {InitialUpstreamURL} \cup {UpdateURL(g) : g \in Procs}

\* Goroutine g moves on from step p in this step.
Leaves(g, p) == pc[g] = p /\ (pc'[g] # pc[g] \/ loc'[g] # loc[g])

\* What the steps of a lookup do with the upstream record: Find's answer
\* for a configured chain id leads to the dials or to the dial error, never
\* to the upstream record; the upstream record is handed over for a chain
\* id without configuration, which is the upstream's, and not stored; the
\* record stored and handed over after the dials is built from the
\* configuration; an update of the upstream leaves the cache alone.
UpstreamOnlyWithoutConfig ==
  \A g \in Procs :
    /\ (Leaves(g, "gc_find") /\ networks[CurChain(g)] # Nil) =>
         /\ pc'[g] # "gc_upstream"
         /\ pc'[g] = "gc_store" =>
              loc'[g].rpcClient.url = networks[CurChain(g)].RPCURL
    /\ (pc[g] # "gc_upstream" /\ pc'[g] = "gc_upstream") =>
         /\ networks[CurChain(g)] = Nil
         /\ CurChain(g) = UpstreamChainID
    /\ Leaves(g, "gc_upstream") =>
         /\ HandsOver(g, upstream)
         /\ rpcClients' = rpcClients
    /\ Leaves(g, "gc_store") =>
         /\ BuiltFromConfig(rpcClients'[CurChain(g)], CurChain(g))
         /\ HandsOver(g, rpcClients'[CurChain(g)])
    /\ upstream' # upstream => rpcClients' = rpcClients

\* C29: the upstream record serves a chain id only when Find has no
\* configuration for it; no record in the cache, nor one ever stored, is an
\* upstream record, so a chain id with a configuration is served by the
\* record dialed from it, before and after updates of the upstream URL.
C29_UpstreamOnlyWithoutConfig ==
  /\ [][UpstreamOnlyWithoutConfig]_vars
  /\ [](/\ \A c \in ChainIDs :
            rpcClients[c] # NoEntry => ~UpstreamRecord(rpcClients[c])
        /\ \A i \in 1..Len(stores) : ~UpstreamRecord(stores[i]))

\* C29 happens: the chain id of the upstream has a configuration; a remote
\* call for it is about to call the record dialed from that configuration
\* and cached, while the upstream record is one that UpdateUpstreamURL put
\* in place.
C29_Witness ==
  \E g \in Procs :
    /\ pc[g] = "tr_remote"
    /\ call[g].chainID = UpstreamChainID
    /\ networks[UpstreamChainID] # Nil
    /\ loc[g].client = rpcClients[UpstreamChainID]
    /\ BuiltFromConfig(loc[g].client, UpstreamChainID)
    /\ upstream.main.url # InitialUpstreamURL

\* EthClient returned to goroutine g an endpoint and no error, or an error
\* and no endpoint.
EndpointOrError(g) == (ret[g].client # Nil) <=> (ret[g].err = NilValue)

\* C30: every return of EthClient, for every chain id and every client
\* NewClient can build, carries either a non-nil endpoint and a nil error
\* or a nil endpoint and a non-nil error.
C30_EthClientEndpointOrError ==
  \A g \in Procs : DoneCall(g, "EthClient") => EndpointOrError(g)

\* Goroutine g cannot take its next step: it waits for handlersMx.
WaitsForLock(g) ==
  \/ At(g, "h_rlock") /\ ~CanRLock
  \/ At(g, "r_wait") /\ ~CanLock

\* While the code of a handler executes in g, g holds handlersMx neither
\* for reading nor for writing.
HandlerRunsUnlocked ==
  \A g \in Procs : At(g, "cm_invoke") => reg.readers[g] = 0 /\ reg.writer # g

\* Whenever some goroutine is inside an operation, one of them can step.
NoRegistryDeadlock ==
  (\E g \in Procs : Busy(g)) => \E g \in Procs : Busy(g) /\ ~WaitsForLock(g)

\* C31: handlersMx is not held while a handler runs, so handlers that call
\* RegisterHandler or CallContext for another method never leave the
\* goroutines waiting for each other, and every operation completes,
\* whatever other goroutines call and register meanwhile.
C31_HandlersRunUnlocked ==
  /\ [](HandlerRunsUnlocked /\ NoRegistryDeadlock)
  /\ \A g \in Procs : Busy(g) ~> ~Busy(g)

\* C31 happens: a running handler called RegisterHandler and is inside it,
\* holding the write lock, while the other goroutine waits in the lookup of
\* its own CallContext.
C31_Witness ==
  /\ \E g \in Procs :
       /\ Len(reg.stack[g]) >= 2
       /\ reg.stack[g][1].did = "register"
       /\ Top(g).op = "RegisterHandler"
       /\ reg.writer = g
       /\ \E o \in Procs \ {g} : At(o, "h_rlock")

\* What the caller's variable holds after callMethod returned b, having
\* held before when it was called.
SlotAfter(b, before) == IF b.written THEN b.value ELSE before

\* Binding was attempted and returned an error.
BindingFailed == BoundSomething /\ bind.out.err # NilValue

\* C32: when binding returns an error (no JSON encoding, a response that
\* cannot be assigned, a result that is no pointer or a nil pointer) the
\* caller's variable holds what it held before the call, and the handler
\* was invoked exactly once.
C32_FailedBindingLeavesSlot ==
  BindingFailed =>
    /\ SlotAfter(bind.out, Unset) = Unset
    /\ bind.invoked = 1

\* C32 happens: the response has no JSON encoding, the variable is a
\* json.RawMessage, and callMethod returned the encoding error.
C32_Witness ==
  /\ BindingFailed
  /\ bind.result = Pointer("raw")
  /\ bind.response = GoValue("chan", <<>>)
  /\ bind.out.err = ErrMarshal
  /\ bind.invoked = 1

\* The handler succeeded with a nil response and the caller passed a result.
NilResponseBound == BoundSomething /\ bind.response = NilInterface

\* The caller's variable is a []byte or a json.RawMessage.
RawSlot(result) == result.kind = "pointer" /\ result.elem \in {"bytes", "raw"}

\* C33: a nil response of a successful handler, with a result that is not
\* nil: a []byte or json.RawMessage variable receives the text null and the
\* call returns nil; with any other result the call returns the binding
\* error and the variable is left as it was.
C33_NilResponseBinding ==
  NilResponseBound =>
    IF RawSlot(bind.result)
      THEN /\ bind.out.err = NilValue
           /\ SlotAfter(bind.out, Unset) =
                GoValue(bind.result.elem, <<"n", "u", "l", "l">>)
      ELSE /\ bind.out.err = ErrInvalidResultType
           /\ SlotAfter(bind.out, Unset) = Unset

\* C33 happens both ways: a nil response went into a json.RawMessage
\* variable as null, or was refused for an interface{} variable.
C33_Witness ==
  /\ NilResponseBound
  /\ \/ /\ bind.result = Pointer("raw")
        /\ bind.out.value = GoValue("raw", <<"n", "u", "l", "l">>)
     \/ /\ bind.result = Pointer("iface")
        /\ bind.out.err = ErrInvalidResultType

\* The records goroutine g stored in the cache during its operation.
OwnStores(g) ==
  {v.x : v \in {log[g][i] : i \in 1..Len(log[g])} \cap
               {Event("store", 0, stores[k]) : k \in 1..Len(stores)}}

\* Record r was stored in the cache by another goroutine than g.
StoredByOther(g, r) ==
  /\ r \notin OwnStores(g)
  /\ \E k \in 1..Len(stores) : stores[k] = r

\* EthClients returned to g one entry per id, the i-th being the record of
\* the i-th id (nil where the lookup returned the absent upstream record).
OnePerIdInOrder(g) ==
  /\ Len(ret[g].clients) = Len(call[g].chainIDs)
  /\ \A i \in 1..Len(ret[g].clients) :
       ret[g].clients[i] # Nil =>
         ret[g].clients[i].ChainID = call[g].chainIDs[i]

\* Entries i < j of the list returned to g are for the same id.
Repeated(g, i, j) ==
  /\ i < j
  /\ call[g].chainIDs[i] = call[g].chainIDs[j]

Applied(row, u) ==
  IF ~Newer(row, u.clock).newer THEN row
  ELSE IF u.op = "add" THEN Upserted(row, u)
  ELSE Removed(row, u)

\* The update of S with the lowest (highest) clock.
Oldest(S) == CHOOSE u \in S : \A v \in S : u.clock <= v.clock
Newest(S) == CHOOSE u \in S : \A v \in S : u.clock >= v.clock

\* The row left by the updates of S delivered in the order of their clocks.
RECURSIVE InClockOrder(_, _)
InClockOrder(row, S) ==
  IF S = {} THEN row
  ELSE InClockOrder(Applied(row, Oldest(S)), S \ {Oldest(S)})

\* Every update has been delivered and none met a database error.
AllDelivered ==
  /\ saved.stage = "idle"
  /\ saved.todo = {}
  /\ ~saved.failed

\* C35: whatever the order of delivery, the updates leave the row that
\* delivery in clock order leaves, and when an update is newer than what
\* was stored before, the row (if the key has one) has the clock of the
\* newest update and is removed exactly if that update is a
\* DeleteSavedAddress.
C35_SavedAddressSyncConverges ==
  (AllDelivered /\ saved.all # {}) =>
    /\ saved.row = InClockOrder(saved.start, saved.all)
    /\ (/\ saved.row # NoRow
        /\ saved.start = NoRow \/ saved.start.UpdateClock < Newest(saved.all).clock) =>
         /\ saved.row.UpdateClock = Newest(saved.all).clock
         /\ saved.row.Removed = (Newest(saved.all).op = "delete")

\* An operation on the saved address has returned.
SavedReturned == saved.stage = "idle" /\ saved.u # NoUpdate

\* The clock of a row, 0 for a key that has none.
ClockOf(row) == IF row = NoRow THEN 0 ELSE row.UpdateClock

\* C36: an operation changes the row only when its updateClock is greater
\* than the stored update_clock, or when it is an add and there is no row;
\* with an equal or older clock it returns false and leaves the row as it
\* was; and no step ever lowers the stored update_clock or drops the row.
C36_OnlyNewerUpdatesApply ==
  /\ [](SavedReturned =>
          /\ saved.row # saved.before =>
               \/ saved.before = NoRow /\ saved.u.op = "add"
               \/ saved.before # NoRow /\ saved.before.UpdateClock < saved.u.clock
          /\ (saved.before # NoRow /\ saved.u.clock <= saved.before.UpdateClock) =>
               /\ ~saved.ok
               /\ saved.row = saved.before)
  /\ [][ClockOf(saved'.row) >= ClockOf(saved.row)]_vars

\* C36 happens: an add with the stored clock returned false and left the
\* row, and an add with a newer clock replaced it.
C36_Witness ==
  /\ SavedReturned
  /\ saved.start = StoredAddress
  /\ \E u \in saved.all : u.clock = StoredClock /\ u.op = "add" /\ u.name = "b"
  /\ saved.todo = {}
  /\ ~saved.failed
  /\ saved.row = SavedRow("b", FALSE, 3)

\* An operation on the saved address has ended: it returned or panicked.
SavedEnded == saved.stage \in {"idle", "panic"} /\ saved.u # NoUpdate

\* C37: when an operation ends, a transaction that was begun has been
\* finished once, by Commit if the operation came to its end without error
\* and by Rollback otherwise; when Begin failed neither Commit nor Rollback
\* was called, and the operation returned (false, error) with the table as
\* it was.
C37_TransactionFinishedOnce ==
  SavedEnded =>
    IF saved.begun
      THEN /\ saved.commits + saved.rollbacks = 1
           /\ saved.rollbacks = 1 <=> saved.err \notin {NilValue, ErrCommit}
           /\ saved.stage = "idle"
      ELSE /\ saved.commits = 0
           /\ saved.rollbacks = 0
           /\ ~saved.onNil
           /\ saved.stage = "idle"
           /\ ~saved.ok
           /\ saved.err = ErrBegin
           /\ saved.row = saved.before

\* AddGaps has returned.
GapsReturned == gaps.stage = "returned"

\* The table with every gap of the list in it.
RECURSIVE AllInserted(_, _, _)
AllInserted(table, list, i) ==
  IF i > Len(list) THEN table
  ELSE AllInserted(InsertedGap(table, list[i]), list, i + 1)

\* C38: AddGaps that returns the error of an insert has rolled the
\* transaction back and left the table as it was; AddGaps that returns nil
\* has committed, and the table holds every gap of the list.
C38_AddGapsAllOrNothing ==
  GapsReturned =>
    /\ gaps.ret = ErrExec =>
         /\ gaps.table = gaps.before
         /\ gaps.commits = 0
         /\ gaps.rollbacks = 1
    /\ gaps.table # gaps.before =>
         /\ gaps.ret = NilValue
         /\ gaps.table = AllInserted(gaps.before, gaps.gaps, 1)

\* ------------------------------------------------------------ BackupData
SectionIndex(section) == CHOOSE k \in 1..Len(Sections) : Sections[k] = section

\* The number of dispatched messages of a section.
SentCount(section) ==
  Cardinality({k \in 1..Len(backup.sent) : backup.sent[k].payload = section})

\* The dispatched messages follow the order of the sections.
SentInSectionOrder ==
  \A i, j \in 1..Len(backup.sent) :
    i < j => SectionIndex(backup.sent[i].payload)
               <= SectionIndex(backup.sent[j].payload)

\* Every prepared message of every section was dispatched.
AllSent ==
  /\ \A section \in SectionNames :
       SentCount(section) = Totals(backup)[section]
  /\ SentInSectionOrder

\* Something of the backup was recorded.
BackupRecorded ==
  \/ backup.LastClockValue # ClockBefore
  \/ backup.savedClock # ClockBefore
  \/ backup.LastBackup # LastBackupBefore
  \/ backup.signals # <<>>

BackupSucceeded == backup.stage = "returned" /\ backup.err = NilValue

\* C39: the chat's LastClockValue, the LastBackup setting and the
\* BackupPerformed signal are written only after every contact, community,
\* profile, settings and keycards message was dispatched, in that order of
\* sections; a failed preparation or dispatch returns (0, error) and leaves
\* LastBackup and the signal alone; a run that returns no error has recorded
\* the backup.
C39_RecordedAfterDispatch ==
  backup.stage # "none" =>
    /\ BackupRecorded => AllSent
    /\ backup.failed \in {"prepare", "dispatch"} =>
         /\ backup.value = 0 /\ backup.err # NilValue
         /\ backup.LastBackup = LastBackupBefore
         /\ backup.signals = <<>>
         /\ ~BackupRecorded
    /\ BackupSucceeded =>
         /\ backup.savedClock = BackupClock
         /\ backup.LastBackup = BackupClock \div 1000
         /\ backup.value = backup.LastBackup
         /\ backup.handler => backup.signals = <<backup.LastBackup>>

C39_Witness ==
  /\ BackupSucceeded
  /\ backup.signals # <<>>
  /\ \A section \in SectionNames : SentCount(section) >= 1
  /\ SentCount("contacts") = 2

\* C40: in a run that succeeded every message carries, for each section,
\* the number of messages of that section as TotalNumber (1 for keycards);
\* the n messages of a section carry its DataNumber 1..n in the order of
\* dispatch and the DataNumber 0 for every other section; the one keycards
\* message (1 of 1) is the last.
C40_DataNumbering ==
  BackupSucceeded =>
    /\ \A k \in 1..Len(backup.sent) : \A section \in SectionNames :
         /\ backup.sent[k].details[section].TotalNumber = SentCount(section)
         /\ backup.sent[k].details[section].DataNumber =
              IF backup.sent[k].payload = section
                THEN Cardinality({j \in 1..k :
                                    backup.sent[j].payload = section})
                ELSE 0
    /\ SentCount("keycards") = 1
    /\ Len(backup.sent) >= 1
    /\ backup.sent[Len(backup.sent)].payload = "keycards"
    /\ backup.sent[Len(backup.sent)].details["keycards"] =
         [DataNumber |-> 1, TotalNumber |-> 1]

C40_Witness ==
  /\ BackupSucceeded
  /\ SentCount("contacts") = 2
  /\ SentCount("settings") = 2
  /\ SentCount("communities") = 0

====
